---------------------------- MODULE Spec2Model ----------------------------
(***************************************************************************)
(* A model of shardwise's deduplication and quality filter                 *)
(* (src/scripts/dedup_filter.py, class DedupFilter).                       *)
(*                                                                         *)
(* A text is a sequence of one-character strings.  A float the code        *)
(* computes as a quotient of two counts is kept as the exact fraction      *)
(* [n, d]; every configured threshold is a dyadic fraction, for which the  *)
(* float comparison of the code and the exact comparison agree.            *)
(***************************************************************************)
EXTENDS Integers, Sequences, FiniteSets, TLC

VARIABLES
    setup,            \* the loaded configuration and the optional imports
    seen_hashes,      \* DedupFilter.seen_hashes
    lsh,              \* DedupFilter.lsh (present = FALSE: None)
    call,             \* the last operation called, with its arguments
    result,           \* what that call returned, or the exception it raised
    ncalls,           \* number of calls made so far
    passed_texts,     \* history: texts passed to is_exact_duplicate so far
    outcomes,         \* history: <<chunk id, "kept" | "rejected" | "raised">>
                      \* of every process_chunk call made so far
    evaluated,        \* history: the gates the last assess_quality evaluated
    files,            \* the chunk directory: path -> file content
    chunk_files,      \* filter_all: the files still to iterate over
    pc,               \* filter_all: "idle", "loop", "done" or "raised"
    kept_count,       \* filter_all local
    removed_count,    \* filter_all local
    removal_reasons,  \* filter_all local: reason -> count
    worker_pc,        \* per worker: "idle", or "add" between the membership
                      \* test and the insertion of is_exact_duplicate
    worker_text,      \* per worker: the text of the call in progress
    returns,          \* history: [worker, text, ret] of every finished call
    overlapped,       \* history: some call began while another was running
    guardrail,        \* the content_filter configuration and, once
                      \* constructed, ContentGuardrail.all_patterns
    dry_run,          \* apply_guardrails_to_chunks: the dry_run argument
    stats,            \* apply_guardrails_to_chunks local
    chunk_texts,      \* TextChunker.process_file: the texts still to filter
    chunks,           \* TextChunker.process_file local
    files_before      \* history: the chunk directory when the run began

vars == <<setup, seen_hashes, lsh, call, result, ncalls, passed_texts,
          outcomes, evaluated, files, chunk_files, pc, kept_count,
          removed_count, removal_reasons, worker_pc, worker_text, returns,
          overlapped, guardrail, dry_run, stats, chunk_texts, chunks,
          files_before>>

filterVars == <<files, chunk_files, pc, kept_count, removed_count,
                removal_reasons>>

workerVars == <<worker_pc, worker_text, returns, overlapped>>

guardVars == <<guardrail, dry_run, stats, chunk_texts, chunks, files_before>>

-----------------------------------------------------------------------------
(* Bounds *)

\* Calls made on one DedupFilter instance in one behaviour.
MaxCalls == 2

-----------------------------------------------------------------------------
(* Characters and strings *)

Range(f) == {f[i] : i \in DOMAIN f}

\* str.isspace for the characters of the model
IsSpace(c) == c \in {" ", "\n", "\t"}

\* str.isalpha for the characters of the model
IsAlpha(c) == c \in {"a", "b", "c", "d", "e", "o", "r", "w", "x", "y", "z",
                     "A", "B", "C", "D"}

LowerChar(c) ==
    CASE c = "A" -> "a"
      [] c = "B" -> "b"
      [] c = "C" -> "c"
      [] c = "D" -> "d"
      [] OTHER -> c

\* str.lower
Lower(text) == [i \in 1..Len(text) |-> LowerChar(text[i])]

\* str.split() without arguments: the maximal runs of non-whitespace
RECURSIVE SplitFrom(_, _, _, _)
SplitFrom(text, i, cur, acc) ==
    IF i > Len(text)
    THEN IF cur = <<>> THEN acc ELSE Append(acc, cur)
    ELSE IF IsSpace(text[i])
         THEN SplitFrom(text, i + 1, <<>>,
                        IF cur = <<>> THEN acc ELSE Append(acc, cur))
         ELSE SplitFrom(text, i + 1, Append(cur, text[i]), acc)

Split(text) == SplitFrom(text, 1, <<>>, <<>>)

\* s repeated n times (Python's s * n)
RECURSIVE Rep(_, _)
Rep(s, n) == IF n <= 0 THEN <<>> ELSE s \o Rep(s, n - 1)

\* the words of ws joined by single spaces
RECURSIVE Join(_)
Join(ws) ==
    IF ws = <<>> THEN <<>>
    ELSE IF Len(ws) = 1 THEN ws[1]
    ELSE ws[1] \o <<" ">> \o Join(Tail(ws))

\* one-letter words
W(cs) == Join([i \in 1..Len(cs) |-> <<cs[i]>>])

-----------------------------------------------------------------------------
(* Number formatting of the f-strings *)

\* a fraction; d > 0
Frac(n, d) == [n |-> n, d |-> d]

\* x rounded to hundredths, ties to even (format spec .2f)
Hundredths(x) ==
    LET h == (100 * x.n) \div x.d
        r == 100 * x.n - h * x.d
    IN  IF 2 * r > x.d \/ (2 * r = x.d /\ h % 2 = 1) THEN h + 1 ELSE h

\* f'{x:.2f}' for x >= 0
Fmt2(x) ==
    LET h == Hundredths(x)
        f == h % 100
    IN  ToString(h \div 100) \o "." \o
        (IF f < 10 THEN "0" ELSE "") \o ToString(f)

\* a < b, a > b for fractions
FracLt(a, b) == a.n * b.d < b.n * a.d
FracGt(a, b) == FracLt(b, a)

-----------------------------------------------------------------------------
(* Configuration: config['deduplication'], config['quality'] and the two   *)
(* optional imports, as one DedupFilter is constructed with them           *)

\* a configured ratio, with the text Python prints for it
Thr(n, d, repr) == [n |-> n, d |-> d, repr |-> repr]

DedupConfig(exact, near, minlen) ==
    [exact_dedup |-> exact, near_dedup |-> near, min_text_length |-> minlen,
     minhash |-> [threshold |-> Frac(1, 2)]]

QualityConfig(minw, maxw, minu, readability, minscore) ==
    [min_words |-> minw, max_words |-> maxw,
     min_unique_words_ratio |-> minu,
     max_repetition_ratio |-> Thr(1, 2, "0.5"),
     min_alpha_ratio |-> Thr(1, 2, "0.5"),
     calculate_readability |-> readability,
     min_readability_score |-> minscore]

\* MinHash: whether datasketch was imported; textstat: "ok", "absent" (the
\* import failed) or "raises" (the scorer throws)
MkSetup(dedup, quality, minhash, ts) ==
    [dedup_config |-> dedup, quality_config |-> quality,
     MinHash |-> minhash, textstat |-> ts]

Setups ==
    { MkSetup(DedupConfig(TRUE, TRUE, 5),
              QualityConfig(3, 12, Thr(1, 2, "0.5"), FALSE, 0), TRUE, "ok"),
      MkSetup(DedupConfig(TRUE, FALSE, 5),
              QualityConfig(5, 12, Thr(1, 16, "0.0625"), FALSE, 0), TRUE, "ok"),
      MkSetup(DedupConfig(FALSE, TRUE, 0),
              QualityConfig(50, 1000, Thr(1, 2, "0.5"), FALSE, 0), TRUE, "ok"),
      MkSetup(DedupConfig(FALSE, FALSE, 5),
              QualityConfig(3, 8, Thr(1, 16, "0.0625"), TRUE, 115), TRUE, "ok"),
      MkSetup(DedupConfig(TRUE, TRUE, 5),
              QualityConfig(3, 12, Thr(1, 16, "0.0625"), TRUE, 60), FALSE,
              "absent"),
      MkSetup(DedupConfig(TRUE, TRUE, 5),
              QualityConfig(3, 12, Thr(1, 2, "0.5"), TRUE, 40), TRUE,
              "raises") }

dedup_config == setup.dedup_config
quality_config == setup.quality_config

-----------------------------------------------------------------------------
(* The texts the calls are made with *)

\* The texts of the chunks run through process_chunk
ChunkTexts ==
    { W(<<"a", "b">>),                        \* 'a b'
      W(<<"a", "b", "c", "d">>),              \* 'a b c d'
      W(<<"A", "B", "C", "D">>),              \* the same words in upper case
      W(<<"a", "b", "c">>),                   \* 3 of those 4 words
      W(<<"w", "x", "y", "z">>),              \* a disjoint vocabulary
      Rep(<<"a", " ", "b", " ">>, 5),         \* 'a b ' * 5: repeated 3-grams
      Rep(<<"w", "o", "r", "d", " ">>, 10) }  \* 'word ' * 10

Texts ==
    ChunkTexts \cup
    { <<>>,                                   \* ''
      <<"x">>,
      <<" ", "\n", " ">>,                     \* whitespace only
      W(<<"a", "b", "c", "e">>),
      W(<<"a", "a", "a", "a">>),              \* one word repeated
      W(<<"a", "a", "b", "b">>),
      W(<<"1", "2", "3", "4">>),              \* digits
      W(<<"a", "1", "b", "2", "3">>),
      W(<<"a", "b", "c", "d", "e", "w", "x", "y">>),
      W(<<"a", "b", "c", "d", "e", "w", "x", "y", "z">>),
      Rep(<<"1", " ">>, 10),                  \* '1 ' * 10
      Rep(<<"1", "2", " ">>, 10),             \* '12 ' * 10
      Rep(<<"a", " ", "b", " ", "c", " ", "d", " ">>, 3) }

-----------------------------------------------------------------------------
(* Quality metrics *)

\* Fewer words than this: the repetition ratio is 0.0
MinWordsForRepetition == 10

\* The n-gram size of the repetition ratio
NGram == 3

\* The score substituted when textstat is absent or throws
NeutralReadability == 50

count_words(text) == Len(Split(text))

count_unique_words(text) == Cardinality(Range(Split(Lower(text))))

calculate_repetition_ratio(text) ==
    LET words == Split(Lower(text))
        total == Len(words) - (NGram - 1)
        trigrams == {SubSeq(words, i, i + NGram - 1) : i \in 1..total}
    IN  IF Len(words) < MinWordsForRepetition THEN Frac(0, 1)
        ELSE IF total <= 0 THEN Frac(0, 1)
        ELSE Frac(total - Cardinality(trigrams), total)

calculate_alpha_ratio(text) ==
    IF text = <<>> THEN Frac(0, 1)
    ELSE Frac(Cardinality({i \in 1..Len(text) :
                              IsAlpha(text[i]) \/ IsSpace(text[i])}),
              Len(text))

\* textstat.flesch_reading_ease, an external scorer: 206.835
\* - 1.015 * words/sentences - 84.6 * syllables/words, here for one sentence
\* of one-syllable words and in whole points
flesch_reading_ease(text) == 122 - count_words(text)

calculate_readability(text) ==
    IF setup.textstat = "absent" THEN NeutralReadability
    ELSE IF setup.textstat = "raises" THEN NeutralReadability
    ELSE flesch_reading_ease(text)

\* f'{score:.2f}' of a whole score
FmtScore(score) == ToString(score) \o ".00"

\* assess_quality with the unique-word ratio checked before the word count
assess_quality_unique_first(text) ==
    LET q == quality_config
        word_count == count_words(text)
        unique_words == count_unique_words(text)
        unique_ratio == IF word_count > 0 THEN Frac(unique_words, word_count)
                        ELSE Frac(0, 1)
        repetition_ratio == calculate_repetition_ratio(text)
        alpha_ratio == calculate_alpha_ratio(text)
        readability_score == calculate_readability(text)
        Fail(reason, gates) ==
            [ret |-> [passed |-> FALSE, reason |-> reason],
             evaluated |-> gates]
    IN  IF FracLt(unique_ratio, q.min_unique_words_ratio)
        THEN Fail("Low vocabulary diversity: " \o Fmt2(unique_ratio) \o " < "
                  \o q.min_unique_words_ratio.repr, <<"unique_ratio">>)
        ELSE IF word_count < q.min_words
        THEN Fail("Too few words: " \o ToString(word_count) \o " < "
                  \o ToString(q.min_words), <<"unique_ratio", "min_words">>)
        ELSE IF word_count > q.max_words
        THEN Fail("Too many words: " \o ToString(word_count) \o " > "
                  \o ToString(q.max_words),
                  <<"unique_ratio", "min_words", "max_words">>)
        ELSE IF FracGt(repetition_ratio, q.max_repetition_ratio)
        THEN Fail("High repetition: " \o Fmt2(repetition_ratio) \o " > "
                  \o q.max_repetition_ratio.repr,
                  <<"min_words", "max_words", "unique_ratio",
                    "repetition_ratio">>)
        ELSE IF FracLt(alpha_ratio, q.min_alpha_ratio)
        THEN Fail("Too many non-alphabetic characters: " \o Fmt2(alpha_ratio)
                  \o " < " \o q.min_alpha_ratio.repr,
                  <<"min_words", "max_words", "unique_ratio",
                    "repetition_ratio", "alpha_ratio">>)
        ELSE IF q.calculate_readability
                /\ readability_score < q.min_readability_score
        THEN [ret |-> [passed |-> FALSE,
                       reason |-> "Low readability: "
                                  \o FmtScore(readability_score) \o " < "
                                  \o ToString(q.min_readability_score),
                       readability_score |-> <<readability_score>>],
              evaluated |-> <<"min_words", "max_words", "unique_ratio",
                              "repetition_ratio", "alpha_ratio",
                              "readability">>]
        ELSE [ret |-> [passed |-> TRUE,
                       word_count |-> word_count,
                       unique_words |-> unique_words,
                       unique_ratio |-> unique_ratio,
                       repetition_ratio |-> repetition_ratio,
                       alpha_ratio |-> alpha_ratio,
                       \* None when readability is not calculated
                       readability_score |->
                           IF q.calculate_readability
                           THEN <<readability_score>> ELSE <<>>],
              evaluated |-> <<"min_words", "max_words", "unique_ratio",
                              "repetition_ratio", "alpha_ratio">>
                            \o (IF q.calculate_readability
                                THEN <<"readability">> ELSE <<>>)]

\* assess_quality: ret is the dict returned, evaluated the gates evaluated
\* on the way, in order
assess_quality(text) ==
    LET q == quality_config
        word_count == count_words(text)
        unique_words == count_unique_words(text)
        unique_ratio == IF word_count > 0 THEN Frac(unique_words, word_count)
                        ELSE Frac(0, 1)
        repetition_ratio == calculate_repetition_ratio(text)
        alpha_ratio == calculate_alpha_ratio(text)
        readability_score == calculate_readability(text)
        Fail(reason, gates) ==
            [ret |-> [passed |-> FALSE, reason |-> reason],
             evaluated |-> gates]
    IN  IF word_count < q.min_words
        THEN Fail("Too few words: " \o ToString(word_count) \o " < "
                  \o ToString(q.min_words), <<"min_words">>)
        ELSE IF word_count > q.max_words
        THEN Fail("Too many words: " \o ToString(word_count) \o " > "
                  \o ToString(q.max_words), <<"min_words", "max_words">>)
        ELSE IF FracLt(unique_ratio, q.min_unique_words_ratio)
        THEN Fail("Low vocabulary diversity: " \o Fmt2(unique_ratio) \o " < "
                  \o q.min_unique_words_ratio.repr,
                  <<"min_words", "max_words", "unique_ratio">>)
        ELSE IF FracGt(repetition_ratio, q.max_repetition_ratio)
        THEN Fail("High repetition: " \o Fmt2(repetition_ratio) \o " > "
                  \o q.max_repetition_ratio.repr,
                  <<"min_words", "max_words", "unique_ratio",
                    "repetition_ratio">>)
        ELSE IF FracLt(alpha_ratio, q.min_alpha_ratio)
        THEN Fail("Too many non-alphabetic characters: " \o Fmt2(alpha_ratio)
                  \o " < " \o q.min_alpha_ratio.repr,
                  <<"min_words", "max_words", "unique_ratio",
                    "repetition_ratio", "alpha_ratio">>)
        ELSE IF q.calculate_readability
                /\ readability_score < q.min_readability_score
        THEN [ret |-> [passed |-> FALSE,
                       reason |-> "Low readability: "
                                  \o FmtScore(readability_score) \o " < "
                                  \o ToString(q.min_readability_score),
                       readability_score |-> <<readability_score>>],
              evaluated |-> <<"min_words", "max_words", "unique_ratio",
                              "repetition_ratio", "alpha_ratio",
                              "readability">>]
        ELSE [ret |-> [passed |-> TRUE,
                       word_count |-> word_count,
                       unique_words |-> unique_words,
                       unique_ratio |-> unique_ratio,
                       repetition_ratio |-> repetition_ratio,
                       alpha_ratio |-> alpha_ratio,
                       \* None when readability is not calculated
                       readability_score |->
                           IF q.calculate_readability
                           THEN <<readability_score>> ELSE <<>>],
              evaluated |-> <<"min_words", "max_words", "unique_ratio",
                              "repetition_ratio", "alpha_ratio">>
                            \o (IF q.calculate_readability
                                THEN <<"readability">> ELSE <<>>)]

-----------------------------------------------------------------------------
(* Exact and near-duplicate detection *)

\* hashlib.sha256(text.encode('utf-8')).hexdigest(): a digest, taken to be
\* collision-free, so one digest per text
compute_hash(text) == <<"sha256", text>>

\* create_minhash: the signature is a function of the set of lower-cased
\* words the MinHash is updated with
create_minhash(text) == Range(Split(Lower(text)))

\* The similarity a MinHash signature estimates; two empty signatures are
\* identical
Jaccard(a, b) ==
    IF a \cup b = {} THEN Frac(1, 1)
    ELSE Frac(Cardinality(a \cap b), Cardinality(a \cup b))

\* MinHashLSH.query that takes a signature as similar when the indexed words
\* are among its own: not a symmetric relation
LshQuery_containment(index, minhash) ==
    {e.key : e \in {x \in index : x.minhash \subseteq minhash}}

\* MinHashLSH.query: the keys of the indexed signatures similar to minhash
\* at the configured threshold
LshQuery(index, minhash) ==
    {e.key : e \in {x \in index :
        ~FracLt(Jaccard(x.minhash, minhash), dedup_config.minhash.threshold)}}

\* The constructor's choice of self.lsh
NewLsh ==
    [present |-> setup.MinHash /\ dedup_config.near_dedup, index |-> {}]

\* is_exact_duplicate without the insertion of line 90
is_exact_duplicate_no_add(hashes, text) ==
    [ret |-> compute_hash(text) \in hashes, seen_hashes |-> hashes]

\* is_exact_duplicate: the value returned and the hash set it leaves
is_exact_duplicate(hashes, text) ==
    LET text_hash == compute_hash(text)
    IN  IF text_hash \in hashes
        THEN [ret |-> TRUE, seen_hashes |-> hashes]
        ELSE [ret |-> FALSE, seen_hashes |-> hashes \cup {text_hash}]

\* is_near_duplicate: the value returned (or the exception MinHashLSH.insert
\* raises for a key it already holds) and the index it leaves
is_near_duplicate(l, text, chunk_id) ==
    IF ~l.present \/ ~setup.MinHash
    THEN [exc |-> "none", ret |-> FALSE, lsh |-> l]
    ELSE LET minhash == create_minhash(text)
         IN  IF LshQuery(l.index, minhash) # {}
             THEN [exc |-> "none", ret |-> TRUE, lsh |-> l]
             ELSE IF \E e \in l.index : e.key = chunk_id
             THEN [exc |-> "ValueError", ret |-> FALSE, lsh |-> l]
             ELSE [exc |-> "none", ret |-> FALSE,
                   lsh |-> [l EXCEPT !.index =
                              @ \cup {[key |-> chunk_id,
                                       minhash |-> minhash]}]]

-----------------------------------------------------------------------------
(* Chunk files *)

Unreadable == [kind |-> "unreadable"]        \* open() raises
InvalidJson == [kind |-> "invalid_json"]     \* json.load raises
JsonArray == [kind |-> "json", type |-> "array"]
JsonObject(fields) == [kind |-> "json", type |-> "object", fields |-> fields]

JString(s) == [type |-> "string", val |-> s]
JNull == [type |-> "null"]

\* The metadata the chunker writes
BaseMetadata == ("chunking_method" :> "fixed")

Paths == {"p1.json", "p2.json", "p3.json"}
Ids == {"c1", "c2"}

\* The path a single process_chunk call is made with
DirectPath == "p1.json"

IdField(id) == IF id = "" THEN <<>> ELSE ("id" :> id)
MetadataField(has) == IF has THEN ("metadata" :> BaseMetadata) ELSE <<>>

\* What a chunk file can hold; id "" stands for a chunk without the id key
Contents ==
    {Unreadable, InvalidJson, JsonArray}
    \cup {JsonObject(IdField("c1") @@ ("text" :> JNull) @@ MetadataField(TRUE)),
          JsonObject(IdField("c1") @@ MetadataField(TRUE))}
    \cup {JsonObject(IdField(id) @@ ("text" :> JString(t)) @@ MetadataField(TRUE))
            : id \in Ids \cup {""}, t \in ChunkTexts}
    \cup {JsonObject(IdField("c1") @@ ("text" :> JString(t)) @@ MetadataField(FALSE))
            : t \in ChunkTexts}

IsChunk(content) == content.kind = "json" /\ content.type = "object"

\* chunk.get('text', '')
TextOf(content) ==
    IF "text" \in DOMAIN content.fields THEN content.fields["text"]
    ELSE JString(<<>>)

\* chunk.get('id', str(chunk_file))
ChunkIdOf(content, chunk_file) ==
    IF "id" \in DOMAIN content.fields THEN content.fields["id"]
    ELSE chunk_file

\* datetime.now().isoformat()
Now == "now"

Verdict(reason) == [keep |-> FALSE, reason |-> reason]

\* The quality result stored as it is, with passed and the None values
QualityMetrics_unfiltered(q) == q

\* The dict comprehension of process_chunk: every key of the quality result
\* but passed, and no None value
QualityMetrics(q) ==
    [k \in (DOMAIN q \ {"passed"})
           \ (IF q.readability_score = <<>> THEN {"readability_score"} ELSE {})
       |-> IF k = "readability_score" THEN q[k][1] ELSE q[k]]

\* What process_chunk hands back: result is [ret |-> the verdict] or
\* [exc |-> the exception that escapes]; seen_hashes and lsh are the filter's
\* state afterwards
Out(res, hashes, l) == [result |-> res, seen_hashes |-> hashes, lsh |-> l]

\* process_chunk from the near-duplicate detection on (lines 248-276), for
\* the text and chunk_id read from the chunk
NearDedupAndQuality(content, chunk_file, hashes, l) ==
    LET text == TextOf(content)
        chunk_id == ChunkIdOf(content, chunk_file)
        near == IF dedup_config.near_dedup
                THEN is_near_duplicate(l, text.val, chunk_id)
                ELSE [exc |-> "none", ret |-> FALSE, lsh |-> l]
    IN
    IF near.exc # "none"
    THEN Out([exc |-> near.exc], hashes, near.lsh)
    ELSE IF near.ret
    THEN Out([ret |-> Verdict("Near-duplicate")], hashes, near.lsh)
    ELSE
    LET quality_result == assess_quality(text.val).ret
    IN
    IF ~quality_result.passed
    THEN Out([ret |-> Verdict(quality_result.reason)], hashes, near.lsh)
    ELSE IF "metadata" \notin DOMAIN content.fields
    THEN Out([exc |-> "KeyError"], hashes, near.lsh)
    ELSE
    LET metadata ==
            ("quality_metrics" :> QualityMetrics(quality_result))
            @@ ("filtering_timestamp" :> Now)
            @@ ("passed_filtering" :> TRUE)
            @@ content.fields["metadata"]
        chunk == [content.fields EXCEPT !["metadata"] = metadata]
    IN  Out([ret |-> [keep |-> TRUE, chunk |-> chunk]], hashes, near.lsh)

\* process_chunk with the exact deduplication moved before the check of the
\* minimum length
process_chunk_dedup_first(content, chunk_file, hashes, l) ==
    IF content.kind # "json"
    THEN Out([ret |-> Verdict("Read error")], hashes, l)
    ELSE IF content.type # "object"
    THEN Out([exc |-> "AttributeError"], hashes, l)
    ELSE IF TextOf(content).type # "string"
    THEN Out([exc |-> "TypeError"], hashes, l)
    ELSE
    LET text == TextOf(content)
        exact == IF dedup_config.exact_dedup
                 THEN is_exact_duplicate(hashes, text.val)
                 ELSE [ret |-> FALSE, seen_hashes |-> hashes]
    IN
    IF exact.ret
    THEN Out([ret |-> Verdict("Exact duplicate")], exact.seen_hashes, l)
    ELSE IF Len(text.val) < dedup_config.min_text_length
    THEN Out([ret |-> Verdict("Text too short")], exact.seen_hashes, l)
    ELSE NearDedupAndQuality(content, chunk_file, exact.seen_hashes, l)

\* process_chunk: read the chunk, check the minimum length, deduplicate
\* exactly, then go on to near-duplicate detection and quality
process_chunk(content, chunk_file, hashes, l) ==
    IF content.kind # "json"
    THEN Out([ret |-> Verdict("Read error")], hashes, l)
    ELSE IF content.type # "object"
    THEN Out([exc |-> "AttributeError"], hashes, l)
    ELSE IF TextOf(content).type # "string"
    THEN Out([exc |-> "TypeError"], hashes, l)
    ELSE
    LET text == TextOf(content)
    IN
    IF Len(text.val) < dedup_config.min_text_length
    THEN Out([ret |-> Verdict("Text too short")], hashes, l)
    ELSE
    LET exact == IF dedup_config.exact_dedup
                 THEN is_exact_duplicate(hashes, text.val)
                 ELSE [ret |-> FALSE, seen_hashes |-> hashes]
    IN
    IF exact.ret
    THEN Out([ret |-> Verdict("Exact duplicate")], exact.seen_hashes, l)
    ELSE NearDedupAndQuality(content, chunk_file, exact.seen_hashes, l)

-----------------------------------------------------------------------------
(* One DedupFilter and the chunks run through process_chunk *)

NoCall == [op |-> "none"]

InitFilter ==
    /\ setup \in Setups
    /\ seen_hashes = {}
    /\ lsh = NewLsh
    /\ call = NoCall
    /\ result = [none |-> TRUE]
    /\ ncalls = 0
    /\ passed_texts = {}
    /\ outcomes = {}
    /\ evaluated = <<>>

InitIdle ==
    /\ files = <<>>
    /\ chunk_files = <<>>
    /\ pc = "idle"
    /\ kept_count = 0
    /\ removed_count = 0
    /\ removal_reasons = <<>>

\* No worker thread, no ContentGuardrail
InitNoWorkers ==
    /\ worker_pc = <<>>
    /\ worker_text = <<>>
    /\ returns = <<>>
    /\ overlapped = FALSE

InitNoGuardrail ==
    /\ guardrail = [none |-> TRUE]
    /\ dry_run = FALSE
    /\ stats = <<>>
    /\ chunk_texts = <<>>
    /\ chunks = <<>>
    /\ files_before = <<>>

Init == InitFilter /\ InitIdle /\ InitNoWorkers /\ InitNoGuardrail

Returned(res) == "ret" \in DOMAIN res
Raised(res) == "exc" \in DOMAIN res

\* What became of a chunk, for the history
Outcome(content, chunk_file, res) ==
    <<IF IsChunk(content) THEN ChunkIdOf(content, chunk_file) ELSE chunk_file,
      IF Raised(res) THEN "raised"
      ELSE IF res.ret.keep THEN "kept" ELSE "rejected">>

ProcessChunk(chunk_file, content) ==
    /\ ncalls < MaxCalls
    /\ LET out == process_chunk(content, chunk_file, seen_hashes, lsh)
       IN  /\ result' = out.result
           /\ seen_hashes' = out.seen_hashes
           /\ lsh' = out.lsh
           /\ outcomes' = outcomes \cup {Outcome(content, chunk_file, out.result)}
    /\ call' = [op |-> "process_chunk", chunk_file |-> chunk_file,
                content |-> content,
                before |-> [seen_hashes |-> seen_hashes, lsh |-> lsh]]
    /\ ncalls' = ncalls + 1
    /\ UNCHANGED <<setup, passed_texts, evaluated>>
    /\ UNCHANGED <<filterVars, workerVars, guardVars>>

Next == \E content \in Contents : ProcessChunk(DirectPath, content)

Spec == Init /\ [][Next]_vars

-----------------------------------------------------------------------------
(* The methods of one DedupFilter called on their own *)

IsExactDuplicate(text) ==
    /\ ncalls < MaxCalls
    /\ LET out == is_exact_duplicate(seen_hashes, text)
       IN  /\ result' = [ret |-> out.ret]
           /\ seen_hashes' = out.seen_hashes
    /\ passed_texts' = passed_texts \cup {text}
    /\ call' = [op |-> "is_exact_duplicate", text |-> text,
                earlier |-> text \in passed_texts]
    /\ ncalls' = ncalls + 1
    /\ UNCHANGED <<setup, lsh, outcomes, evaluated>>
    /\ UNCHANGED <<filterVars, workerVars, guardVars>>

NextExact == \E text \in Texts : IsExactDuplicate(text)

SpecExact == Init /\ [][NextExact]_vars

IsNearDuplicate(text, chunk_id) ==
    /\ ncalls < MaxCalls
    /\ LET out == is_near_duplicate(lsh, text, chunk_id)
       IN  /\ result' = IF out.exc = "none" THEN [ret |-> out.ret]
                        ELSE [exc |-> out.exc]
           /\ lsh' = out.lsh
    /\ call' = [op |-> "is_near_duplicate", text |-> text,
                chunk_id |-> chunk_id, before |-> lsh]
    /\ ncalls' = ncalls + 1
    /\ UNCHANGED <<setup, seen_hashes, passed_texts, outcomes, evaluated>>
    /\ UNCHANGED <<filterVars, workerVars, guardVars>>

NextNear == \E text \in ChunkTexts, chunk_id \in Ids \cup {DirectPath} :
                IsNearDuplicate(text, chunk_id)

SpecNear == Init /\ [][NextNear]_vars

AssessQuality(text) ==
    /\ LET out == assess_quality(text)
       IN  /\ result' = [ret |-> out.ret]
           /\ evaluated' = out.evaluated
    /\ call' = [op |-> "assess_quality", text |-> text]
    /\ UNCHANGED <<setup, seen_hashes, lsh, ncalls, passed_texts, outcomes>>
    /\ UNCHANGED <<filterVars, workerVars, guardVars>>

NextQuality == \E text \in Texts : AssessQuality(text)

SpecQuality == Init /\ [][NextQuality]_vars

-----------------------------------------------------------------------------
(* filter_all over a directory of chunk files *)

\* The chunk files a directory holds in a batch run
BatchContents ==
    { Unreadable,
      JsonArray,
      JsonObject(IdField("c1") @@ ("text" :> JString(W(<<"a", "b", "c", "d">>)))
                 @@ MetadataField(TRUE)),
      JsonObject(IdField("c2") @@ ("text" :> JString(W(<<"A", "B", "C", "D">>)))
                 @@ MetadataField(TRUE)),
      JsonObject(IdField("c1") @@ ("text" :> JString(W(<<"w", "x", "y", "z">>)))
                 @@ MetadataField(FALSE)),
      JsonObject(("text" :> JString(W(<<"a", "b">>))) @@ MetadataField(TRUE)) }

\* Every directory of at most the files of Paths
Directories ==
    UNION {[ps -> BatchContents] : ps \in SUBSET Paths}

\* The orders rglob can list the files of dir in
Listings(dir) ==
    {order \in [1..Cardinality(DOMAIN dir) -> DOMAIN dir] :
        \A i, j \in DOMAIN order : i # j => order[i] # order[j]}

\* dir without the file path (Path.unlink)
Unlink(dir, path) == [q \in DOMAIN dir \ {path} |-> dir[q]]

\* removal_reasons[reason] += 1 on a defaultdict(int)
Tally(reasons, reason) ==
    IF reason \in DOMAIN reasons
    THEN [reasons EXCEPT ![reason] = @ + 1]
    ELSE (reason :> 1) @@ reasons

InitBatch ==
    /\ InitFilter
    /\ files \in Directories
    /\ chunk_files = <<>>
    /\ pc = "idle"
    /\ kept_count = 0
    /\ removed_count = 0
    /\ removal_reasons = <<>>
    /\ InitNoWorkers
    /\ InitNoGuardrail

\* filter_all up to the loop: list the files, return when there are none
FilterAllStart ==
    /\ pc = "idle"
    /\ IF DOMAIN files = {}
       THEN /\ pc' = "done"
            /\ chunk_files' = <<>>
       ELSE /\ pc' = "loop"
            /\ chunk_files' \in Listings(files)
    /\ UNCHANGED <<setup, seen_hashes, lsh, call, result, ncalls, passed_texts,
                   outcomes, evaluated, files, kept_count, removed_count,
                   removal_reasons, workerVars, guardVars>>

\* One iteration of the loop of filter_all; after the last one the method
\* logs the counts and returns.  An exception of process_chunk is not caught
\* and leaves filter_all.
FilterAllStep ==
    /\ pc = "loop"
    /\ chunk_files # <<>>
    /\ LET chunk_file == Head(chunk_files)
           content == files[chunk_file]
           out == process_chunk(content, chunk_file, seen_hashes, lsh)
       IN  /\ call' = [op |-> "process_chunk", chunk_file |-> chunk_file,
                       content |-> content,
                       before |-> [seen_hashes |-> seen_hashes, lsh |-> lsh]]
           /\ result' = out.result
           /\ seen_hashes' = out.seen_hashes
           /\ lsh' = out.lsh
           /\ outcomes' = outcomes \cup {Outcome(content, chunk_file, out.result)}
           /\ IF Raised(out.result)
              THEN /\ pc' = "raised"
                   /\ UNCHANGED <<files, chunk_files, kept_count,
                                  removed_count, removal_reasons>>
              ELSE /\ chunk_files' = Tail(chunk_files)
                   /\ pc' = IF Tail(chunk_files) = <<>> THEN "done" ELSE "loop"
                   /\ IF out.result.ret.keep
                      THEN /\ files' = [files EXCEPT ![chunk_file] =
                                          JsonObject(out.result.ret.chunk)]
                           /\ kept_count' = kept_count + 1
                           /\ UNCHANGED <<removed_count, removal_reasons>>
                      ELSE /\ files' = Unlink(files, chunk_file)
                           /\ removed_count' = removed_count + 1
                           /\ removal_reasons' =
                                Tally(removal_reasons, out.result.ret.reason)
                           /\ UNCHANGED kept_count
    /\ UNCHANGED <<setup, ncalls, passed_texts, evaluated, workerVars,
                   guardVars>>

NextBatch == FilterAllStart \/ FilterAllStep

SpecFilterAll == InitBatch /\ [][NextBatch]_vars

-----------------------------------------------------------------------------
(* Claims *)

\* C1: on one DedupFilter, is_exact_duplicate(T) returns true if and only if
\* the same text T was passed to an earlier is_exact_duplicate call on that
\* instance; the registered hashes are those of all the texts passed so far,
\* none is ever removed.
C1_ExactDuplicateIffPassedBefore ==
    /\ seen_hashes = {compute_hash(t) : t \in passed_texts}
    /\ call.op = "is_exact_duplicate" =>
          /\ result.ret = call.earlier
          /\ call.text \in passed_texts

\* T twice: the second call, on a text passed before, has returned true
C1_Witness ==
    /\ call.op = "is_exact_duplicate"
    /\ ncalls = 2
    /\ result.ret = TRUE
    /\ Cardinality(passed_texts) = 1

-----------------------------------------------------------------------------
(* The last process_chunk call and the stages it went through, told from   *)
(* the chunk and the state the filter was in before the call               *)

\* The last call was process_chunk on a chunk whose text is a string
OnTextChunk ==
    /\ call.op = "process_chunk"
    /\ IsChunk(call.content)
    /\ TextOf(call.content).type = "string"

CallText == TextOf(call.content).val
CallId == ChunkIdOf(call.content, call.chunk_file)

Rejected == Returned(result) /\ ~result.ret.keep
RejectedAs(reason) == Rejected /\ result.ret.reason = reason
Kept == Returned(result) /\ result.ret.keep

\* The keys of the index similar to the text of the call, before the call
MatchedBefore == LshQuery(call.before.lsh.index, create_minhash(CallText))

\* Stage i of process_chunk, taken alone, rejects the chunk of the call
StageFails(i) ==
    CASE i = 1 -> Len(CallText) < dedup_config.min_text_length
      [] i = 2 -> /\ dedup_config.exact_dedup
                  /\ compute_hash(CallText) \in call.before.seen_hashes
      [] i = 3 -> /\ dedup_config.near_dedup
                  /\ call.before.lsh.present
                  /\ MatchedBefore # {}
      [] i = 4 -> ~assess_quality(CallText).ret.passed

StageReason(i) ==
    CASE i = 1 -> "Text too short"
      [] i = 2 -> "Exact duplicate"
      [] i = 3 -> "Near-duplicate"
      [] i = 4 -> assess_quality(CallText).ret.reason

FailingStages == {i \in 1..4 : StageFails(i)}

FirstFailingStage == CHOOSE i \in FailingStages : \A j \in FailingStages : i <= j

\* C2: whenever a chunk is rejected as 'Near-duplicate', an earlier chunk it
\* matched in the index was kept (the first-seen chunk of a set of similar
\* chunks is retained).  Stated for the runs in which no call raised, and
\* for a rejected chunk that has an id of its own and passes the quality
\* assessment itself.
C2_FirstSeenRetained ==
    (/\ OnTextChunk
     /\ RejectedAs("Near-duplicate")
     /\ \A o \in outcomes : o[2] # "raised"
     /\ CallId \notin MatchedBefore
     /\ ~StageFails(4))
    => \E m \in MatchedBefore : <<m, "kept">> \in outcomes

\* C3: the stages run in the order minimum length, exact dedup, near dedup,
\* quality: a chunk is kept exactly when no stage fails, and a rejected
\* chunk carries the reason of the first stage that fails.
C3_ReasonOfFirstFailingStage ==
    /\ (call.op = "process_chunk" /\ call.content.kind # "json")
          => RejectedAs("Read error")
    /\ (OnTextChunk /\ Returned(result)) =>
          /\ Kept <=> FailingStages = {}
          /\ Rejected => result.ret.reason = StageReason(FirstFailingStage)

\* An exact duplicate that also has too few words was rejected as 'Exact
\* duplicate', after a too-short chunk was rejected as 'Text too short'
C3_Witness ==
    /\ OnTextChunk
    /\ RejectedAs("Exact duplicate")
    /\ FailingStages = {2, 4}
    /\ count_words(CallText) < quality_config.min_words

\* C4: a chunk rejected with 'Read error' or 'Text too short' leaves the hash
\* set and the near-duplicate index as they were, and a chunk rejected as
\* 'Exact duplicate' leaves the near-duplicate index as it was.
C4_NoStageAfterFailure ==
    call.op = "process_chunk" =>
       /\ (RejectedAs("Read error") \/ RejectedAs("Text too short"))
             => /\ seen_hashes = call.before.seen_hashes
                /\ lsh = call.before.lsh
       /\ RejectedAs("Exact duplicate") => lsh = call.before.lsh

\* A too-short chunk whose text was never registered was rejected by a
\* filter that already holds a hash and an indexed signature
C4_Witness ==
    /\ OnTextChunk
    /\ RejectedAs("Text too short")
    /\ dedup_config.exact_dedup
    /\ seen_hashes # {}
    /\ lsh.index # {}
    /\ compute_hash(CallText) \notin seen_hashes

\* C5: is_near_duplicate returns true and leaves the index unchanged when
\* the index holds a similar item, otherwise inserts the signature under
\* the id and returns false; without an index it returns false and changes
\* nothing.
C5_QueryThenInsert ==
    call.op = "is_near_duplicate" =>
       IF ~call.before.present
       THEN Returned(result) /\ result.ret = FALSE /\ lsh = call.before
       ELSE IF LshQuery(call.before.index, create_minhash(call.text)) # {}
       THEN Returned(result) /\ result.ret = TRUE /\ lsh = call.before
       ELSE /\ Returned(result)
            /\ result.ret = FALSE
            /\ lsh.index = call.before.index
                  \cup {[key |-> call.chunk_id,
                         minhash |-> create_minhash(call.text)]}

\* C6: no exception escapes process_chunk: every call returns a verdict with
\* keep and, on rejection, a reason.
C6_NoExceptionEscapes ==
    call.op = "process_chunk" =>
       /\ Returned(result)
       /\ "keep" \in DOMAIN result.ret
       /\ ~result.ret.keep => "reason" \in DOMAIN result.ret

\* A chunk file that is not a chunk with an id, a text and metadata
Malformed(content) ==
    \/ ~IsChunk(content)
    \/ ~({"id", "text", "metadata"} \subseteq DOMAIN content.fields)
    \/ TextOf(content).type # "string"

\* C7: in filter_all a chunk that is malformed or whose file cannot be read
\* is skipped: it is not kept, and the loop goes on with the remaining files
\* (or ends after the last one); it never aborts the batch.
C7_MalformedChunkSkipped ==
    (call.op = "process_chunk" /\ Malformed(call.content))
    => /\ pc \in {"loop", "done"}
       /\ ~(Returned(result) /\ result.ret.keep)

\* f'Too few words: {word_count} < {min_words}'
TooFewWords(n) ==
    "Too few words: " \o ToString(n) \o " < "
    \o ToString(quality_config.min_words)

Gates ==
    <<"min_words", "max_words", "unique_ratio", "repetition_ratio",
      "alpha_ratio", "readability">>

\* Gate i, taken alone, rejects text
GateFails(i, text) ==
    LET q == quality_config
        n == count_words(text)
    IN  CASE i = 1 -> n < q.min_words
          [] i = 2 -> n > q.max_words
          [] i = 3 -> FracLt(IF n > 0 THEN Frac(count_unique_words(text), n)
                             ELSE Frac(0, 1), q.min_unique_words_ratio)
          [] i = 4 -> FracGt(calculate_repetition_ratio(text),
                             q.max_repetition_ratio)
          [] i = 5 -> FracLt(calculate_alpha_ratio(text), q.min_alpha_ratio)
          [] i = 6 -> /\ q.calculate_readability
                      /\ calculate_readability(text) < q.min_readability_score

\* The gate a rejection reason names
GateOfReason(reason) ==
    LET q == quality_config
        n == count_words(call.text)
    IN  IF reason = TooFewWords(n) THEN 1
        ELSE IF reason = "Too many words: " \o ToString(n) \o " > "
                         \o ToString(q.max_words) THEN 2
        ELSE IF reason = "Low vocabulary diversity: "
                         \o Fmt2(Frac(count_unique_words(call.text), n))
                         \o " < " \o q.min_unique_words_ratio.repr THEN 3
        ELSE IF reason = "High repetition: "
                         \o Fmt2(calculate_repetition_ratio(call.text))
                         \o " > " \o q.max_repetition_ratio.repr THEN 4
        ELSE IF reason = "Too many non-alphabetic characters: "
                         \o Fmt2(calculate_alpha_ratio(call.text))
                         \o " < " \o q.min_alpha_ratio.repr THEN 5
        ELSE IF reason = "Low readability: "
                         \o FmtScore(calculate_readability(call.text))
                         \o " < " \o ToString(q.min_readability_score) THEN 6
        ELSE 0

FailingGates == {i \in 1..6 : GateFails(i, call.text)}

FirstFailingGate == CHOOSE i \in FailingGates : \A j \in FailingGates : i <= j

\* C9 as claimed: the minimum text length is the first gate of the quality
\* assessment: a text shorter than min_text_length is rejected there and no
\* later gate is evaluated.
C9_MinLengthGateFirst ==
    (/\ call.op = "assess_quality"
     /\ Len(call.text) < dedup_config.min_text_length)
    => /\ ~result.ret.passed
       /\ result.ret.reason = "Text too short"
       /\ evaluated = <<"min_text_length">>

\* C9 as amended: assess_quality applies the gates word-count range (minimum,
\* then maximum), unique-word ratio, repetition ratio, alphabetic ratio and
\* optional readability in this order and stops at the first one that fails:
\* the text passes exactly when no gate fails, and is otherwise rejected with
\* the reason of the earliest failing gate, no later gate being evaluated.
C9_GatesInOrder ==
    call.op = "assess_quality" =>
       /\ result.ret.passed <=> FailingGates = {}
       /\ ~result.ret.passed =>
             /\ evaluated = SubSeq(Gates, 1, FirstFailingGate)
             /\ GateOfReason(result.ret.reason) = FirstFailingGate
       /\ result.ret.passed =>
             evaluated = SubSeq(Gates, 1,
                                IF quality_config.calculate_readability
                                THEN 6 ELSE 5)

\* A text that fails the repetition and the alphabetic gate was rejected for
\* its repetition, the alphabetic ratio not evaluated
C9_Witness ==
    /\ call.op = "assess_quality"
    /\ FailingGates = {4, 5}
    /\ GateOfReason(result.ret.reason) = 4
    /\ evaluated = SubSeq(Gates, 1, 4)

\* The keys process_chunk adds to the metadata of a chunk it keeps
FilteringKeys == {"quality_metrics", "filtering_timestamp", "passed_filtering"}

\* C10: process_chunk adds quality_metrics, filtering_timestamp and
\* passed_filtering=true to the chunk metadata exactly when the verdict is
\* keep=true, which is when all stages passed; a rejected verdict carries
\* only keep=false and a reason, no chunk and no metrics.
C10_EnrichedExactlyWhenKept ==
    (call.op = "process_chunk" /\ Returned(result)) =>
       IF result.ret.keep
       THEN LET chunk == result.ret.chunk
                md == chunk["metadata"]
                q == assess_quality(CallText).ret
            IN  /\ DOMAIN result.ret = {"keep", "chunk"}
                /\ FailingStages = {}
                /\ DOMAIN md = DOMAIN call.content.fields["metadata"]
                                  \cup FilteringKeys
                /\ md["passed_filtering"] = TRUE
                /\ md["filtering_timestamp"] = Now
                /\ DOMAIN md["quality_metrics"] =
                      {"word_count", "unique_words", "unique_ratio",
                       "repetition_ratio", "alpha_ratio"}
                      \cup (IF quality_config.calculate_readability
                            THEN {"readability_score"} ELSE {})
                /\ md["quality_metrics"]["word_count"] = count_words(CallText)
                /\ \A k \in DOMAIN chunk \ {"metadata"} :
                      chunk[k] = call.content.fields[k]
       ELSE /\ DOMAIN result.ret = {"keep", "reason"}
            /\ (OnTextChunk => FailingStages # {})

\* A chunk whose metadata held none of the three keys was kept
C10_Witness ==
    /\ OnTextChunk
    /\ Kept
    /\ DOMAIN call.content.fields["metadata"] \cap FilteringKeys = {}
    /\ result.ret.chunk["metadata"]["passed_filtering"]

-----------------------------------------------------------------------------
(* Worker threads calling is_exact_duplicate on one DedupFilter *)

Workers == {"w1", "w2"}

\* Calls begun by all workers together in one behaviour.
MaxWorkerCalls == 3

WorkerTexts ==
    { W(<<"a", "b">>), W(<<"a", "b", "c">>), W(<<"w", "x", "y", "z">>) }

\* text_hash in self.seen_hashes
hash_seen(hashes, text) == compute_hash(text) \in hashes

\* self.seen_hashes.add(text_hash) that adds nothing
add_hash_nothing(hashes, text) == hashes

\* self.seen_hashes.add(text_hash)
add_hash(hashes, text) == hashes \cup {compute_hash(text)}

InitWorkers ==
    /\ InitFilter
    /\ InitIdle
    /\ InitNoGuardrail
    /\ worker_pc = [w \in Workers |-> "idle"]
    /\ worker_text = [w \in Workers |-> <<>>]
    /\ returns = <<>>
    /\ overlapped = FALSE

\* A worker enters is_exact_duplicate, hashes the text and tests the set:
\* it returns True for a hash in the set and otherwise goes on to the
\* insertion, before which the other worker may run.
WorkerTest(w, text) ==
    /\ worker_pc[w] = "idle"
    /\ ncalls < MaxWorkerCalls
    /\ ncalls' = ncalls + 1
    /\ overlapped' = (overlapped \/ \E v \in Workers \ {w} : worker_pc[v] = "add")
    /\ IF hash_seen(seen_hashes, text)
       THEN /\ returns' = Append(returns, [worker |-> w, text |-> text,
                                           ret |-> TRUE])
            /\ UNCHANGED <<worker_pc, worker_text>>
       ELSE /\ worker_pc' = [worker_pc EXCEPT ![w] = "add"]
            /\ worker_text' = [worker_text EXCEPT ![w] = text]
            /\ UNCHANGED returns
    /\ UNCHANGED <<setup, seen_hashes, lsh, call, result, passed_texts,
                   outcomes, evaluated, filterVars, guardVars>>

\* The worker inserts the hash and returns False
WorkerAdd(w) ==
    /\ worker_pc[w] = "add"
    /\ seen_hashes' = add_hash(seen_hashes, worker_text[w])
    /\ returns' = Append(returns, [worker |-> w, text |-> worker_text[w],
                                   ret |-> FALSE])
    /\ worker_pc' = [worker_pc EXCEPT ![w] = "idle"]
    /\ worker_text' = [worker_text EXCEPT ![w] = <<>>]
    /\ UNCHANGED <<setup, lsh, call, result, ncalls, passed_texts, outcomes,
                   evaluated, overlapped, filterVars, guardVars>>

NextWorkers ==
    \E w \in Workers :
       \/ \E text \in WorkerTexts : WorkerTest(w, text)
       \/ WorkerAdd(w)

SpecWorkers == InitWorkers /\ [][NextWorkers]_vars

\* The finished calls on text that returned ret
ReturnsOf(text, ret) ==
    {i \in DOMAIN returns : returns[i].text = text /\ returns[i].ret = ret}

\* C11: the hash registry is not safe for unsynchronized concurrent use.
\* When all is_exact_duplicate calls on the instance are serialized, exactly
\* one call per distinct text returns false (the first) and every later one
\* returns true; two calls on the same text can both return false only when
\* they interleave between the membership test and the insertion.
C11_OneFalsePerTextWhenSerialized ==
    \A text \in WorkerTexts :
       /\ ~overlapped =>
             /\ ReturnsOf(text, TRUE) # {} => Cardinality(ReturnsOf(text, FALSE)) = 1
             /\ Cardinality(ReturnsOf(text, FALSE)) <= 1
             /\ \A i \in ReturnsOf(text, FALSE), j \in ReturnsOf(text, TRUE) : i < j
       /\ Cardinality(ReturnsOf(text, FALSE)) > 1 => overlapped

\* Two workers interleaved on the same new text and both returned false
C11_Witness ==
    \E i, j \in DOMAIN returns :
       /\ i < j
       /\ returns[i].worker # returns[j].worker
       /\ returns[i].text = returns[j].text
       /\ ~returns[i].ret
       /\ ~returns[j].ret
       /\ Cardinality(seen_hashes) = 1

-----------------------------------------------------------------------------
(* Regular expressions: the fragment of Python's re that the configured     *)
(* patterns of the model use: literal characters, \d, a counted repetition  *)
(* {n} of the atom before it, and parentheses.  A pattern is the sequence   *)
(* of the characters of its source.                                         *)

\* Python's None where a text is expected: a sequence that is no text
None == <<"None">>

Digits == {"0", "1", "2", "3", "4", "5", "6", "7", "8", "9"}

DigitVal(c) ==
    CASE c = "0" -> 0 [] c = "1" -> 1 [] c = "2" -> 2 [] c = "3" -> 3
      [] c = "4" -> 4 [] c = "5" -> 5 [] c = "6" -> 6 [] c = "7" -> 7
      [] c = "8" -> 8 [] c = "9" -> 9

RECURSIVE DigitsVal(_)
DigitsVal(ds) ==
    IF ds = <<>> THEN 0
    ELSE 10 * DigitsVal(SubSeq(ds, 1, Len(ds) - 1)) + DigitVal(ds[Len(ds)])

\* _sre.MAXREPEAT, 4294967295, as its digits
MaxRepeatDigits == <<"4", "2", "9", "4", "9", "6", "7", "2", "9", "5">>

\* the number written ds is at least the number written es (no leading zeros)
RECURSIVE DigitsGE(_, _)
DigitsGE(ds, es) ==
    IF Len(ds) # Len(es) THEN Len(ds) > Len(es)
    ELSE IF ds = <<>> THEN TRUE
    ELSE IF ds[1] # es[1] THEN DigitVal(ds[1]) > DigitVal(es[1])
    ELSE DigitsGE(Tail(ds), Tail(es))

\* The digits of src from position i on
RECURSIVE DigitsFrom(_, _)
DigitsFrom(src, i) ==
    IF i <= Len(src) /\ src[i] \in Digits
    THEN <<src[i]>> \o DigitsFrom(src, i + 1)
    ELSE <<>>

\* The parser of re.compile: the atoms of the pattern, or the exception
\* raised: re.error for an unbalanced parenthesis or a dangling backslash,
\* OverflowError for a repetition count of MAXREPEAT or more.
RECURSIVE ReParse(_, _, _, _)
ReParse(src, i, depth, atoms) ==
    IF i > Len(src)
    THEN IF depth > 0 THEN [exc |-> "re.error"] ELSE [atoms |-> atoms]
    ELSE IF src[i] = "("
    THEN ReParse(src, i + 1, depth + 1, atoms)
    ELSE IF src[i] = ")"
    THEN IF depth = 0 THEN [exc |-> "re.error"]
         ELSE ReParse(src, i + 1, depth - 1, atoms)
    ELSE IF src[i] = "\\" /\ i = Len(src)
    THEN [exc |-> "re.error"]
    ELSE LET escaped == src[i] = "\\"
             atom == IF ~escaped THEN src[i]
                     ELSE IF src[i + 1] = "d" THEN "\\d" ELSE src[i + 1]
             j == IF escaped THEN i + 2 ELSE i + 1
             ds == IF j <= Len(src) /\ src[j] = "{"
                   THEN DigitsFrom(src, j + 1) ELSE <<>>
             counted == /\ ds # <<>>
                        /\ j + Len(ds) + 1 <= Len(src)
                        /\ src[j + Len(ds) + 1] = "}"
         IN  IF ~counted
             THEN ReParse(src, j, depth, Append(atoms, atom))
             ELSE IF DigitsGE(ds, MaxRepeatDigits)
             THEN [exc |-> "OverflowError"]
             ELSE ReParse(src, j + Len(ds) + 2, depth,
                          atoms \o [k \in 1..DigitsVal(ds) |-> atom])

\* re.compile(pattern, re.MULTILINE | re.IGNORECASE)
re_compile(pattern) ==
    LET parsed == ReParse(pattern, 1, 0, <<>>)
    IN  IF "exc" \in DOMAIN parsed THEN parsed
        ELSE [ret |-> [pattern |-> pattern, atoms |-> parsed.atoms]]

\* One atom against one character, ignoring case
AtomMatches(atom, c) ==
    IF atom = "\\d" THEN c \in Digits ELSE LowerChar(atom) = LowerChar(c)

\* The pattern matches at the 0-based position p
MatchAt(atoms, text, p) ==
    /\ p + Len(atoms) <= Len(text)
    /\ \A k \in 1..Len(atoms) : AtomMatches(atoms[k], text[p + k])

\* pattern.finditer(text): the spans (start, end) of the non-overlapping
\* matches from left to right, positions 0-based, end exclusive
RECURSIVE FindIter(_, _, _)
FindIter(atoms, text, p) ==
    IF atoms = <<>>
    THEN [k \in 1..(Len(text) - p + 1) |-> <<p + k - 1, p + k - 1>>]
    ELSE LET starts == {q \in p..(Len(text) - Len(atoms)) :
                           MatchAt(atoms, text, q)}
             q == CHOOSE m \in starts : \A n \in starts : m <= n
         IN  IF starts = {} THEN <<>>
             ELSE <<<<q, q + Len(atoms)>>>>
                  \o FindIter(atoms, text, q + Len(atoms))

\* text[a:b] for 0 <= a, b
Slice(text, a, b) ==
    IF b > Len(text) THEN SubSeq(text, a + 1, Len(text))
    ELSE SubSeq(text, a + 1, b)

Min2(a, b) == IF a <= b THEN a ELSE b
Max2(a, b) == IF a >= b THEN a ELSE b

\* sub occurs in text at the 0-based position i and ends by hi
OccursAt(text, sub, i, hi) ==
    /\ i + Len(sub) <= Min2(hi, Len(text))
    /\ \A k \in 1..Len(sub) : text[i + k] = sub[k]

\* text.find(sub, lo, hi) and text.rfind(sub, lo, hi)
Find(text, sub, lo, hi) ==
    LET found == {i \in lo..hi : OccursAt(text, sub, i, hi)}
    IN  IF found = {} THEN -1
        ELSE CHOOSE i \in found : \A j \in found : i <= j

RFind(text, sub, lo, hi) ==
    LET found == {i \in lo..hi : OccursAt(text, sub, i, hi)}
    IN  IF found = {} THEN -1
        ELSE CHOOSE i \in found : \A j \in found : i >= j

\* re.sub(r'\n{3,}', '\n\n', text): of a run of newlines the first two stay
CollapseNewlines(text) ==
    LET kept == SelectSeq([i \in 1..Len(text) |-> i],
                          LAMBDA i : ~(/\ i > 2
                                       /\ text[i] = "\n"
                                       /\ text[i - 1] = "\n"
                                       /\ text[i - 2] = "\n"))
    IN  [k \in 1..Len(kept) |-> text[kept[k]]]

\* str.strip()
Strip(text) ==
    LET solid == {i \in 1..Len(text) : ~IsSpace(text[i])}
        first == CHOOSE i \in solid : \A j \in solid : i <= j
        last == CHOOSE i \in solid : \A j \in solid : i >= j
    IN  IF solid = {} THEN <<>> ELSE SubSeq(text, first, last)

-----------------------------------------------------------------------------
(* ContentGuardrail (src/scripts/content_guardrails.py).  guardrail_config  *)
(* is the content_filter section of the configuration, a function from the  *)
(* keys that are present to their values; custom_patterns stands for        *)
(* patterns.custom_patterns.                                                *)

\* dict.get(key, default)
Get(d, key, default) == IF key \in DOMAIN d THEN d[key] ELSE default

\* pattern.pattern[:50] and match.group(0)[:100]
PatternPrefix == 50
MatchPrefix == 100

\* This many matches and more: confidence 1.0
ConfidenceMatches == 3

\* The default of context_chars
DefaultContextChars == 500

\* How far back and ahead a paragraph and a sentence break are looked for
ParaWindow == 200
SentWindow == 100

\* _compile_patterns: the compiled patterns in their configured order, an
\* entry that raises re.error logged and left out; any other exception of
\* re.compile leaves _compile_patterns.
RECURSIVE CompileFrom(_, _)
CompileFrom(custom_patterns, all_patterns) ==
    IF custom_patterns = <<>> THEN [ret |-> all_patterns]
    ELSE LET compiled == re_compile(Head(custom_patterns))
         IN  IF "ret" \in DOMAIN compiled
             THEN CompileFrom(Tail(custom_patterns),
                              Append(all_patterns, compiled.ret))
             ELSE IF compiled.exc = "re.error"
             THEN CompileFrom(Tail(custom_patterns), all_patterns)
             ELSE [exc |-> compiled.exc]

compile_patterns(guardrail_config) ==
    CompileFrom(Get(guardrail_config, "custom_patterns", <<>>), <<>>)

\* ContentGuardrail(config_path): the instance, or the exception raised
ContentGuardrail(guardrail_config) ==
    LET compiled == compile_patterns(guardrail_config)
    IN  IF "exc" \in DOMAIN compiled THEN compiled
        ELSE [ret |-> [guardrail_config |-> guardrail_config,
                       enabled |-> Get(guardrail_config, "enabled", FALSE),
                       all_patterns |-> compiled.ret]]

\* The spans of all patterns, pattern by pattern
RECURSIVE SpansFrom(_, _, _)
SpansFrom(all_patterns, text, k) ==
    IF k > Len(all_patterns) THEN <<>>
    ELSE LET spans == FindIter(all_patterns[k].atoms, text, 0)
         IN  [i \in 1..Len(spans) |->
                [pattern |-> Slice(all_patterns[k].pattern, 0, PatternPrefix),
                 text |-> Slice(Slice(text, spans[i][1], spans[i][2]),
                                0, MatchPrefix),
                 start |-> spans[i][1],
                 end |-> spans[i][2]]]
             \o SpansFrom(all_patterns, text, k + 1)

detect_protected_content(g, text) ==
    IF ~g.enabled \/ text = None \/ text = <<>>
    THEN [detected |-> FALSE, matches |-> <<>>, confidence |-> Frac(0, 1)]
    ELSE LET matches == SpansFrom(g.all_patterns, text, 1)
             n == Len(matches)
         IN  [detected |-> n > 0,
              matches |-> matches,
              positions |-> [i \in 1..n |-> <<matches[i].start, matches[i].end>>],
              confidence |-> IF n >= ConfidenceMatches THEN Frac(1, 1)
                             ELSE IF n = 0 THEN Frac(0, 1)
                             ELSE Frac(n, ConfidenceMatches)]

\* _find_boundary_before that looks for the breaks ahead of the position
find_boundary_before_ahead(text, pos) ==
    LET para_break ==
            Find(text, <<"\n", "\n">>, pos, Min2(Len(text), pos + ParaWindow))
        sent_break ==
            Max2(Find(text, <<".", " ">>, pos, Min2(Len(text), pos + SentWindow)),
                 Find(text, <<".", "\n">>, pos, Min2(Len(text), pos + SentWindow)))
    IN  IF para_break # -1 THEN para_break + 2
        ELSE IF sent_break # -1 THEN sent_break + 2
        ELSE Max2(0, pos)

find_boundary_before(text, pos) ==
    LET para_break == RFind(text, <<"\n", "\n">>, Max2(0, pos - ParaWindow), pos)
        sent_break ==
            Max2(RFind(text, <<".", " ">>, Max2(0, pos - SentWindow), pos),
                 RFind(text, <<".", "\n">>, Max2(0, pos - SentWindow), pos))
    IN  IF para_break # -1 THEN para_break + 2
        ELSE IF sent_break # -1 THEN sent_break + 2
        ELSE Max2(0, pos)

\* _find_boundary_after that prefers the sentence break to the paragraph break
find_boundary_after_sentence_first(text, pos) ==
    LET para_break ==
            Find(text, <<"\n", "\n">>, pos, Min2(Len(text), pos + ParaWindow))
        sent_break_space ==
            Find(text, <<".", " ">>, pos, Min2(Len(text), pos + SentWindow))
        sent_break_newline ==
            Find(text, <<".", "\n">>, pos, Min2(Len(text), pos + SentWindow))
        sent_break ==
            IF sent_break_space # -1 /\ sent_break_newline # -1
            THEN Min2(sent_break_space, sent_break_newline)
            ELSE IF sent_break_space # -1 THEN sent_break_space
            ELSE IF sent_break_newline # -1 THEN sent_break_newline
            ELSE -1
    IN  IF sent_break # -1 THEN sent_break + 1
        ELSE IF para_break # -1 THEN para_break
        ELSE Min2(Len(text), pos)

find_boundary_after(text, pos) ==
    LET para_break ==
            Find(text, <<"\n", "\n">>, pos, Min2(Len(text), pos + ParaWindow))
        sent_break_space ==
            Find(text, <<".", " ">>, pos, Min2(Len(text), pos + SentWindow))
        sent_break_newline ==
            Find(text, <<".", "\n">>, pos, Min2(Len(text), pos + SentWindow))
        sent_break ==
            IF sent_break_space # -1 /\ sent_break_newline # -1
            THEN Min2(sent_break_space, sent_break_newline)
            ELSE IF sent_break_space # -1 THEN sent_break_space
            ELSE IF sent_break_newline # -1 THEN sent_break_newline
            ELSE -1
    IN  IF para_break # -1 THEN para_break
        ELSE IF sent_break # -1 THEN sent_break + 1
        ELSE Min2(Len(text), pos)

\* tuple order of sorted()
SpanBefore(a, b) == a[1] < b[1] \/ (a[1] = b[1] /\ a[2] < b[2])

\* The loop of find_protected_sections that merges a section only when it
\* overlaps the one before it, not when it touches it
RECURSIVE MergeSections_overlapping(_, _, _, _)
MergeSections_overlapping(text, positions, context_chars, sections) ==
    IF positions = <<>> THEN sections
    ELSE LET start == Head(positions)[1]
             end == Head(positions)[2]
             section_start ==
                 find_boundary_before(text, Max2(0, start - context_chars))
             section_end ==
                 find_boundary_after(text, Min2(Len(text), end + context_chars))
             n == Len(sections)
         IN  MergeSections_overlapping(text, Tail(positions), context_chars,
                IF n > 0 /\ section_start < sections[n][2]
                THEN [sections EXCEPT
                        ![n] = <<sections[n][1], Max2(sections[n][2], section_end)>>]
                ELSE Append(sections, <<section_start, section_end>>))

\* The loop of find_protected_sections over the sorted positions
RECURSIVE MergeSections(_, _, _, _)
MergeSections(text, positions, context_chars, sections) ==
    IF positions = <<>> THEN sections
    ELSE LET start == Head(positions)[1]
             end == Head(positions)[2]
             section_start ==
                 find_boundary_before(text, Max2(0, start - context_chars))
             section_end ==
                 find_boundary_after(text, Min2(Len(text), end + context_chars))
             n == Len(sections)
         IN  MergeSections(text, Tail(positions), context_chars,
                IF n > 0 /\ section_start <= sections[n][2]
                THEN [sections EXCEPT
                        ![n] = <<sections[n][1], Max2(sections[n][2], section_end)>>]
                ELSE Append(sections, <<section_start, section_end>>))

find_protected_sections(g, text, context_chars) ==
    IF ~g.enabled \/ text = None \/ text = <<>> THEN <<>>
    ELSE LET detection == detect_protected_content(g, text)
         IN  IF ~detection.detected THEN <<>>
             ELSE MergeSections(text, SortSeq(detection.positions, SpanBefore),
                                context_chars, <<>>)

\* cleaned_text[:start] + cleaned_text[end:], from the first section to the
\* last
RECURSIVE CutSections_ascending(_, _)
CutSections_ascending(text, sections) ==
    IF sections = <<>> THEN text
    ELSE LET start == sections[1][1]
             end == sections[1][2]
         IN  CutSections_ascending(
                 Slice(text, 0, start) \o Slice(text, end, Len(text)),
                 Tail(sections))

\* cleaned_text[:start] + cleaned_text[end:], from the last section to the first
RECURSIVE CutSections(_, _)
CutSections(text, sections) ==
    IF sections = <<>> THEN text
    ELSE LET n == Len(sections)
             start == sections[n][1]
             end == sections[n][2]
         IN  CutSections(Slice(text, 0, start) \o Slice(text, end, Len(text)),
                         SubSeq(sections, 1, n - 1))

remove_protected_content(g, text) ==
    IF ~g.enabled \/ text = None \/ text = <<>>
    THEN [text |-> text,
          removed |-> FALSE,
          original_length |-> IF text = None THEN 0 ELSE Len(text),
          final_length |-> IF text = None THEN 0 ELSE Len(text),
          sections_removed |-> 0]
    ELSE LET original_length == Len(text)
             sections == find_protected_sections(
                             g, text, Get(g.guardrail_config, "context_chars",
                                          DefaultContextChars))
             cleaned_text ==
                 Strip(CollapseNewlines(CutSections(text, sections)))
         IN  IF sections = <<>>
             THEN [text |-> text,
                   removed |-> FALSE,
                   original_length |-> original_length,
                   final_length |-> Len(text),
                   sections_removed |-> 0]
             ELSE [text |-> cleaned_text,
                   removed |-> TRUE,
                   original_length |-> original_length,
                   final_length |-> Len(cleaned_text),
                   sections_removed |-> Len(sections),
                   removed_chars |-> original_length - Len(cleaned_text)]

\* The configured action, 'none' when the key is absent
ActionOf_default_none(g) == Get(g.guardrail_config, "action", "none")

\* The configured action, 'flag' when the key is absent
ActionOf(g) == Get(g.guardrail_config, "action", "flag")

\* The actions of scan_and_guard with 'flag' and 'reject' exchanged
ApplyAction_exchanged(text, stage, action, detection, removal) ==
    IF action = "remove"
    THEN [ret |-> [text |-> removal.text, action |-> "removed",
                   stage |-> stage, detected |-> TRUE,
                   detection |-> detection, removal |-> removal]]
    ELSE IF action = "reject"
    THEN [ret |-> [text |-> text, action |-> "flagged", stage |-> stage,
                   detected |-> TRUE, detection |-> detection,
                   should_review |-> TRUE]]
    ELSE IF action = "flag"
    THEN [ret |-> [text |-> None, action |-> "rejected", stage |-> stage,
                   detected |-> TRUE, detection |-> detection,
                   rejected |-> TRUE]]
    ELSE [ret |-> [text |-> text, action |-> "none", stage |-> stage,
                   detected |-> TRUE, detection |-> detection]]

\* Lines 224-274 of scan_and_guard: the action applied to a text in which
\* detection found matches
ApplyAction(text, stage, action, detection, removal) ==
    IF action = "remove"
    THEN IF "removed_chars" \notin DOMAIN removal
         THEN [exc |-> "KeyError"]
         ELSE [ret |-> [text |-> removal.text, action |-> "removed",
                        stage |-> stage, detected |-> TRUE,
                        detection |-> detection, removal |-> removal]]
    ELSE IF action = "flag"
    THEN [ret |-> [text |-> text, action |-> "flagged", stage |-> stage,
                   detected |-> TRUE, detection |-> detection,
                   should_review |-> TRUE]]
    ELSE IF action = "reject"
    THEN [ret |-> [text |-> None, action |-> "rejected", stage |-> stage,
                   detected |-> TRUE, detection |-> detection,
                   rejected |-> TRUE]]
    ELSE [ret |-> [text |-> text, action |-> "none", stage |-> stage,
                   detected |-> TRUE, detection |-> detection]]

\* scan_and_guard without the return of lines 216-222
scan_and_guard_no_early_return(g, text, stage) ==
    IF ~g.enabled
    THEN [ret |-> [text |-> text, action |-> "none", stage |-> stage,
                   detected |-> FALSE]]
    ELSE ApplyAction(text, stage, ActionOf(g),
                     detect_protected_content(g, text),
                     IF ActionOf(g) = "remove"
                     THEN remove_protected_content(g, text) ELSE <<>>)

\* scan_and_guard: the dict returned, or the exception raised
scan_and_guard(g, text, stage) ==
    IF ~g.enabled \/ ~detect_protected_content(g, text).detected
    THEN [ret |-> [text |-> text, action |-> "none", stage |-> stage,
                   detected |-> FALSE]]
    ELSE ApplyAction(text, stage, ActionOf(g),
                     detect_protected_content(g, text),
                     IF ActionOf(g) = "remove"
                     THEN remove_protected_content(g, text) ELSE <<>>)

-----------------------------------------------------------------------------
(* One ContentGuardrail and the calls made on it *)

\* \d{3}-\d{4}
PhonePattern == <<"\\", "d", "{", "3", "}", "-", "\\", "d", "{", "4", "}">>

\* ab
AbPattern == <<"a", "b">>

\* ( : re.compile raises re.error
UnbalancedPattern == <<"(">>

\* a{4294967296} : re.compile raises OverflowError
HugeRepeatPattern ==
    <<"a", "{", "4", "2", "9", "4", "9", "6", "7", "2", "9", "6", "}">>

PatternLists ==
    { <<>>,
      <<PhonePattern>>,
      <<AbPattern, PhonePattern>>,
      <<UnbalancedPattern, PhonePattern>>,
      <<PhonePattern, UnbalancedPattern, AbPattern>>,
      <<PhonePattern, HugeRepeatPattern, AbPattern>> }

\* The content_filter sections: every key may be absent
GuardConfigs ==
    { enabled @@ action @@ context_chars @@ custom_patterns :
        enabled \in {<<>>, "enabled" :> TRUE, "enabled" :> FALSE},
        action \in {<<>>} \cup {"action" :> a :
                       a \in {"remove", "flag", "reject", "redact"}},
        context_chars \in {<<>>, "context_chars" :> 0, "context_chars" :> 2},
        custom_patterns \in {<<>>} \cup {"custom_patterns" :> l :
                                           l \in PatternLists} }

PhoneNumber == <<"5", "5", "5", "-", "1", "2", "3", "4">>

GuardTexts ==
    { None,
      <<>>,
      \* 'Contact: 555-1234 now.'
      <<"C", "o", "n", "t", "a", "c", "t", ":", " ">> \o PhoneNumber
         \o <<" ", "n", "o", "w", ".">>,
      <<"x", "y", "z">>,
      <<"a", "a", "b", "b">>,
      <<"A", "B", " ">> \o PhoneNumber,
      \* 'w. 555-1234 x. y z'
      <<"w", ".", " ">> \o PhoneNumber \o <<" ", "x", ".", " ", "y", " ", "z">>,
      \* 'w\n\n\n555-1234\n\n\nx'
      <<"w", "\n", "\n", "\n">> \o PhoneNumber \o <<"\n", "\n", "\n", "x">>,
      \* 'x\n\n555-1234\n\ny ab'
      <<"x", "\n", "\n">> \o PhoneNumber \o <<"\n", "\n", "y", " ", "a", "b">>,
      \* '555555-1234-1234'
      <<"5", "5", "5">> \o PhoneNumber \o <<"-", "1", "2", "3", "4">>,
      \* 'q. ' + 'x' * 101 + '555-1234'
      <<"q", ".", " ">> \o [i \in 1..101 |-> "x"] \o PhoneNumber }

Stages == {"chunking", "retroactive"}

\* Calls made on one ContentGuardrail in one behaviour; no call changes the
\* instance.
MaxGuardCalls == 1

InitGuard ==
    /\ setup = [none |-> TRUE]
    /\ seen_hashes = {}
    /\ lsh = [present |-> FALSE, index |-> {}]
    /\ call = NoCall
    /\ result = [none |-> TRUE]
    /\ ncalls = 0
    /\ passed_texts = {}
    /\ outcomes = {}
    /\ evaluated = <<>>
    /\ InitIdle
    /\ InitNoWorkers
    /\ \E guardrail_config \in GuardConfigs :
          guardrail = [state |-> "config", guardrail_config |-> guardrail_config]
    /\ dry_run = FALSE
    /\ stats = <<>>
    /\ chunk_texts = <<>>
    /\ chunks = <<>>
    /\ files_before = <<>>

guardFrame == <<setup, seen_hashes, lsh, passed_texts, outcomes,
                evaluated, filterVars, workerVars, dry_run, stats,
                chunk_texts, chunks, files_before>>

\* The state of the variable guardrail after ContentGuardrail(config_path)
Constructed(guardrail_config) ==
    LET made == ContentGuardrail(guardrail_config)
    IN  IF "exc" \in DOMAIN made
        THEN [state |-> "raised", guardrail_config |-> guardrail_config,
              exc |-> made.exc]
        ELSE [state |-> "constructed"] @@ made.ret

Construct ==
    /\ guardrail.state = "config"
    /\ guardrail' = Constructed(guardrail.guardrail_config)
    /\ call' = [op |-> "ContentGuardrail"]
    /\ result' = [none |-> TRUE]
    /\ UNCHANGED <<ncalls, guardFrame>>

DetectProtectedContent(text) ==
    /\ guardrail.state = "constructed"
    /\ ncalls < MaxGuardCalls
    /\ ncalls' = ncalls + 1
    /\ call' = [op |-> "detect_protected_content", text |-> text]
    /\ result' = [ret |-> detect_protected_content(guardrail, text)]
    /\ UNCHANGED <<guardrail, guardFrame>>

FindProtectedSections(text) ==
    /\ guardrail.state = "constructed"
    /\ ncalls < MaxGuardCalls
    /\ ncalls' = ncalls + 1
    /\ call' = [op |-> "find_protected_sections", text |-> text]
    /\ result' = [ret |-> find_protected_sections(guardrail, text,
                                                  DefaultContextChars)]
    /\ UNCHANGED <<guardrail, guardFrame>>

RemoveProtectedContent(text) ==
    /\ guardrail.state = "constructed"
    /\ ncalls < MaxGuardCalls
    /\ ncalls' = ncalls + 1
    /\ call' = [op |-> "remove_protected_content", text |-> text]
    /\ result' = [ret |-> remove_protected_content(guardrail, text)]
    /\ UNCHANGED <<guardrail, guardFrame>>

ScanAndGuard(text, stage) ==
    /\ guardrail.state = "constructed"
    /\ ncalls < MaxGuardCalls
    /\ ncalls' = ncalls + 1
    /\ call' = [op |-> "scan_and_guard", text |-> text, stage |-> stage]
    /\ result' = scan_and_guard(guardrail, text, stage)
    /\ UNCHANGED <<guardrail, guardFrame>>

NextGuard ==
    \/ Construct
    \/ \E text \in GuardTexts :
          \/ DetectProtectedContent(text)
          \/ FindProtectedSections(text)
          \/ RemoveProtectedContent(text)
          \/ \E stage \in Stages : ScanAndGuard(text, stage)

SpecGuard == InitGuard /\ [][NextGuard]_vars

-----------------------------------------------------------------------------
(* Properties of ContentGuardrail *)

\* Some compiled pattern matches somewhere in text
HasMatch(text) ==
    /\ text # None
    /\ \E k \in 1..Len(guardrail.all_patterns), p \in 0..Len(text) :
          MatchAt(guardrail.all_patterns[k].atoms, text, p)

OnScan == call.op = "scan_and_guard" /\ guardrail.state = "constructed"

\* scan_and_guard was called on a text with a match, filtering enabled
OnScanWithMatch == OnScan /\ guardrail.enabled /\ HasMatch(call.text)

\* C12: scan_and_guard returns action 'none', detected=false and the input
\* text unchanged whenever filtering is disabled, no pattern was compiled or
\* no pattern matches the text; detect_protected_content on a text with no
\* match returns detected=false with an empty match list.
C12_NoneWithoutMatch ==
    /\ (/\ OnScan
        /\ \/ ~guardrail.enabled
           \/ guardrail.all_patterns = <<>>
           \/ ~HasMatch(call.text))
       => /\ Returned(result)
          /\ result.ret.action = "none"
          /\ result.ret.detected = FALSE
          /\ result.ret.text = call.text
          /\ result.ret.stage = call.stage
    /\ (call.op = "detect_protected_content" /\ ~HasMatch(call.text))
       => /\ result.ret.detected = FALSE
          /\ result.ret.matches = <<>>

\* Filtering enabled, patterns compiled, a text that none of them matches
C12_Witness ==
    /\ OnScan
    /\ guardrail.enabled
    /\ Len(guardrail.all_patterns) = 2
    /\ call.text = <<"x", "y", "z">>
    /\ ActionOf(guardrail) = "reject"
    /\ result.ret.action = "none"
    /\ result.ret.text = call.text

\* C13 as claimed: with matches found and the configured action missing or
\* not one of remove, flag, reject, scan_and_guard returns action 'none' and
\* the text unchanged.
C13_NoneWhenMissingOrUnknown ==
    (/\ OnScanWithMatch
     /\ \/ "action" \notin DOMAIN guardrail.guardrail_config
        \/ guardrail.guardrail_config["action"] \notin {"remove", "flag", "reject"})
    => /\ Returned(result)
       /\ result.ret.action = "none"
       /\ result.ret.text = call.text

\* C13 as amended: with matches found, a configured action that is not one
\* of remove, flag, reject gives action 'none', detected=true and the text
\* unchanged; a missing action is taken as 'flag' and gives action
\* 'flagged', should_review=true and the text unchanged.
C13_NoneWhenUnknownFlaggedWhenMissing ==
    OnScanWithMatch =>
       /\ ("action" \in DOMAIN guardrail.guardrail_config
           /\ guardrail.guardrail_config["action"] \notin {"remove", "flag", "reject"})
          => /\ Returned(result)
             /\ result.ret.action = "none"
             /\ result.ret.detected = TRUE
             /\ result.ret.text = call.text
             /\ DOMAIN result.ret = {"text", "action", "stage", "detected",
                                     "detection"}
       /\ "action" \notin DOMAIN guardrail.guardrail_config
          => /\ Returned(result)
             /\ result.ret.action = "flagged"
             /\ result.ret.should_review = TRUE
             /\ result.ret.text = call.text

\* The action 'redact' on a text with a phone number
C13_Witness ==
    /\ OnScanWithMatch
    /\ ActionOf(guardrail) = "redact"
    /\ result.ret.action = "none"
    /\ result.ret.detected
    /\ Len(result.ret.detection.matches) = 1
    /\ result.ret.text = call.text

\* The sections remove_protected_content cuts out of the text of the call
SectionsOfCall ==
    find_protected_sections(guardrail, call.text,
                            Get(guardrail.guardrail_config, "context_chars",
                                DefaultContextChars))

\* The characters of the text of the call outside every section
OutsideSections ==
    LET kept == SelectSeq([i \in 1..Len(call.text) |-> i],
                          LAMBDA i : \A n \in 1..Len(SectionsOfCall) :
                                        \/ i - 1 < SectionsOfCall[n][1]
                                        \/ i - 1 >= SectionsOfCall[n][2])
    IN  [k \in 1..Len(kept) |-> call.text[kept[k]]]

\* C14: with action 'remove' and at least one match, every match found by
\* detection lies inside a section that was removed: the sections are
\* disjoint stretches of the text, each match is within one of them, and the
\* text returned is what is left of the text outside the sections.
C14_MatchesInsideRemovedSections ==
    (OnScanWithMatch /\ ActionOf(guardrail) = "remove")
    => /\ Returned(result)
       /\ result.ret.action = "removed"
       /\ \A i \in 1..Len(result.ret.detection.matches) :
             \E n \in 1..Len(SectionsOfCall) :
                /\ SectionsOfCall[n][1] <= result.ret.detection.matches[i].start
                /\ result.ret.detection.matches[i].end <= SectionsOfCall[n][2]
       /\ \A n \in 1..Len(SectionsOfCall) :
             /\ 0 <= SectionsOfCall[n][1]
             /\ SectionsOfCall[n][1] <= SectionsOfCall[n][2]
             /\ SectionsOfCall[n][2] <= Len(call.text)
             /\ n > 1 => SectionsOfCall[n - 1][2] < SectionsOfCall[n][1]
       /\ result.ret.removal.sections_removed = Len(SectionsOfCall)
       /\ result.ret.text = Strip(CollapseNewlines(OutsideSections))

\* 'Contact: 555-1234 now.' without context: the phone number is cut out
C14_Witness ==
    /\ OnScanWithMatch
    /\ ActionOf(guardrail) = "remove"
    /\ Get(guardrail.guardrail_config, "context_chars", DefaultContextChars) = 0
    /\ call.text = <<"C", "o", "n", "t", "a", "c", "t", ":", " ">>
                      \o PhoneNumber \o <<" ", "n", "o", "w", ".">>
    /\ result.ret.text = <<"C", "o", "n", "t", "a", "c", "t", ":", " ", " ",
                           "n", "o", "w", ".">>

\* C15: every result of remove_protected_content reports the original
\* length, the final length, the number of sections removed and the
\* characters removed, with characters removed = original - final length.
C15_ReportsRemovedChars ==
    call.op = "remove_protected_content" =>
       /\ {"original_length", "final_length", "sections_removed",
           "removed_chars"} \subseteq DOMAIN result.ret
       /\ result.ret.removed_chars =
             result.ret.original_length - result.ret.final_length

\* C16: with action 'flag' and at least one match, scan_and_guard returns
\* the input text unchanged, marks it for review (should_review=true) and
\* does not block it: the text is not null and there is no rejected flag.
C16_FlagKeepsText ==
    (OnScanWithMatch /\ ActionOf(guardrail) = "flag")
    => /\ Returned(result)
       /\ result.ret.action = "flagged"
       /\ result.ret.text = call.text
       /\ result.ret.text # None
       /\ result.ret.should_review = TRUE
       /\ "rejected" \notin DOMAIN result.ret
       /\ result.ret.detected = TRUE

\* The action 'flag' configured, on a text with two matches
C16_Witness ==
    /\ OnScanWithMatch
    /\ "action" \in DOMAIN guardrail.guardrail_config
    /\ ActionOf(guardrail) = "flag"
    /\ Len(result.ret.detection.matches) = 2
    /\ result.ret.text = call.text
    /\ result.ret.should_review

\* C17: with action 'reject' and at least one match, scan_and_guard returns
\* a null text and rejected=true, for every input text and stage.
C17_RejectNullsText ==
    (OnScanWithMatch /\ ActionOf(guardrail) = "reject")
    => /\ Returned(result)
       /\ result.ret.action = "rejected"
       /\ result.ret.text = None
       /\ result.ret.rejected = TRUE
       /\ result.ret.detected = TRUE
       /\ result.ret.stage = call.stage

\* A text with a match rejected at the retroactive stage
C17_Witness ==
    /\ OnScanWithMatch
    /\ ActionOf(guardrail) = "reject"
    /\ call.stage = "retroactive"
    /\ call.text # None
    /\ result.ret.text = None
    /\ result.ret.rejected

\* The configured patterns that are valid regular expressions, in order
ValidPatterns(guardrail_config) ==
    SelectSeq(Get(guardrail_config, "custom_patterns", <<>>),
              LAMBDA pattern : "ret" \in DOMAIN re_compile(pattern))

\* C18: an invalid regular expression in the configured list is dropped
\* without raising, and every valid pattern, listed before or after it, is
\* compiled and used in its configured order.
C18_InvalidPatternDropped ==
    guardrail.state # "config" =>
       /\ guardrail.state = "constructed"
       /\ [k \in 1..Len(guardrail.all_patterns) |->
              guardrail.all_patterns[k].pattern]
          = ValidPatterns(guardrail.guardrail_config)

-----------------------------------------------------------------------------
(* The callers of scan_and_guard: TextChunker.process_file                  *)
(* (src/scripts/chunk_text.py) and apply_guardrails_to_chunks               *)
(* (src/scripts/apply_guardrails_retroactive.py)                            *)

\* Chunk texts of one process_file call in one behaviour.
MaxChunks == 2

\* A filtered chunk text shorter than this is not emitted
MinFilteredChars == 50

\* The content_filter sections of the callers; stages_chunking stands for
\* stages.chunking
CallerConfigs ==
    { enabled @@ action @@ context_chars @@ custom_patterns @@ stages :
        enabled \in {"enabled" :> TRUE, "enabled" :> FALSE},
        action \in {"action" :> a : a \in {"remove", "flag", "reject"}},
        context_chars \in {<<>>, "context_chars" :> 0},
        custom_patterns \in {"custom_patterns" :> l :
                               l \in {<<PhonePattern>>,
                                      <<PhonePattern, HugeRepeatPattern>>}},
        stages \in {"stages_chunking" :> TRUE, "stages_chunking" :> FALSE} }

\* 'wxyz ' * 11
LongText == Rep(<<"w", "x", "y", "z", " ">>, 11)

ShortText ==
    <<"C", "o", "n", "t", "a", "c", "t", ":", " ">> \o PhoneNumber
       \o <<" ", "n", "o", "w", ".">>

\* The chunk texts create_chunks may hand to the loop of process_file
ChunkerTexts ==
    { LongText,
      LongText \o PhoneNumber,
      ShortText,
      Rep(<<" ">>, 25) \o <<"w", "x", "y", "z">> \o Rep(<<" ">>, 25),
      <<>> }

RECURSIVE SeqsUpTo(_, _)
SeqsUpTo(S, n) ==
    IF n = 0 THEN {<<>>}
    ELSE SeqsUpTo(S, n - 1)
         \cup {Append(s, x) : s \in {t \in SeqsUpTo(S, n - 1) : Len(t) = n - 1},
                              x \in S}

\* str(uuid.uuid4()), one per chunk
Uuid(idx) == <<"uuid", idx>>

\* The filter keys of the chunk metadata, lines 281-286 of process_file
FilterInfo(guardrail_result) ==
    IF "detected" \in DOMAIN guardrail_result /\ guardrail_result.detected
    THEN [filter_applied |-> TRUE,
          filter_action |-> guardrail_result.action,
          patterns_detected |-> TRUE,
          filter_confidence |-> guardrail_result.detection.confidence]
    ELSE [filter_applied |-> TRUE, filter_action |-> guardrail_result.action]

\* The chunk object of lines 264-292 of process_file
ChunkObject(idx, total, chunk_text, info) ==
    [id |-> Uuid(idx),
     text |-> chunk_text,
     metadata |-> [id |-> Uuid(idx), chunk_index |-> idx,
                   total_chunks |-> total,
                   word_count |-> Len(Split(chunk_text)),
                   char_count |-> Len(chunk_text)] @@ info]

\* The check of lines 254-262 without the test of the filtered text
Skipped_rejected_only(guardrail_result) ==
    guardrail_result.action = "rejected"

\* The filtered text is not emitted: lines 254-262 of process_file
Skipped(guardrail_result) ==
    \/ guardrail_result.action = "rejected"
    \/ guardrail_result.text = None
    \/ guardrail_result.text = <<>>
    \/ Len(Strip(guardrail_result.text)) < MinFilteredChars

\* Lines 252-292 of process_file: the chunks after a chunk text was scanned
EmitFiltered(idx, total, emitted, scanned) ==
    IF "exc" \in DOMAIN scanned THEN scanned
    ELSE IF Skipped(scanned.ret) THEN [ret |-> emitted]
    ELSE [ret |-> Append(emitted,
                         ChunkObject(idx, total, scanned.ret.text,
                                     FilterInfo(scanned.ret)))]

\* One iteration of the loop of process_file: the chunks after it, or the
\* exception raised
ProcessChunkText(g, idx, total, chunk_text, emitted) ==
    IF g.state # "constructed"
    THEN [ret |-> Append(emitted, ChunkObject(idx, total, chunk_text, <<>>))]
    ELSE EmitFiltered(idx, total, emitted,
                      scan_and_guard(g, chunk_text, "chunking"))

InitCallers ==
    /\ setup = [none |-> TRUE]
    /\ seen_hashes = {}
    /\ lsh = [present |-> FALSE, index |-> {}]
    /\ call = NoCall
    /\ result = [none |-> TRUE]
    /\ ncalls = 0
    /\ passed_texts = {}
    /\ outcomes = {}
    /\ evaluated = <<>>
    /\ InitIdle
    /\ InitNoWorkers
    /\ \E guardrail_config \in CallerConfigs :
          guardrail = [state |-> "config", guardrail_config |-> guardrail_config]
    /\ dry_run = FALSE
    /\ stats = <<>>
    /\ chunk_texts = <<>>
    /\ chunks = <<>>
    /\ files_before = <<>>

callerFrame == <<setup, seen_hashes, lsh, passed_texts, outcomes, evaluated,
                 kept_count, removed_count, removal_reasons, workerVars>>

\* TextChunker.__init__: the filter is constructed when it is enabled for
\* the chunking stage, and is None otherwise
ChunkerInit ==
    /\ pc = "idle"
    /\ guardrail.state = "config"
    /\ guardrail' = IF /\ Get(guardrail.guardrail_config, "enabled", FALSE)
                       /\ Get(guardrail.guardrail_config, "stages_chunking",
                              FALSE)
                    THEN Constructed(guardrail.guardrail_config)
                    ELSE [state |-> "absent",
                          guardrail_config |-> guardrail.guardrail_config]
    /\ pc' = IF guardrail'.state = "raised" THEN "chunker_raised"
             ELSE "chunker"
    /\ call' = [op |-> "TextChunker"]
    /\ UNCHANGED <<result, ncalls, files, chunk_files, dry_run, stats,
                   chunk_texts, chunks, files_before, callerFrame>>

\* process_file up to its loop: the text file is read and cut into chunks
ProcessFileStart(texts) ==
    /\ pc = "chunker"
    /\ pc' = IF texts = <<>> THEN "chunked" ELSE "chunking"
    /\ chunk_texts' = texts
    /\ chunks' = <<>>
    /\ ncalls' = 0
    /\ call' = [op |-> "process_file", total |-> Len(texts)]
    /\ UNCHANGED <<result, guardrail, files, chunk_files, dry_run, stats,
                   files_before, callerFrame>>

\* One iteration of the loop of process_file; ncalls is the index idx
ProcessFileStep ==
    /\ pc = "chunking"
    /\ call' = [op |-> "process_file", total |-> call.total,
                idx |-> ncalls, chunk_text |-> Head(chunk_texts)]
    /\ result' = ProcessChunkText(guardrail, ncalls, call.total,
                                  Head(chunk_texts), chunks)
    /\ IF "exc" \in DOMAIN result'
       THEN /\ pc' = "chunker_raised"
            /\ UNCHANGED <<chunks, chunk_texts, ncalls>>
       ELSE /\ chunks' = result'.ret
            /\ chunk_texts' = Tail(chunk_texts)
            /\ ncalls' = ncalls + 1
            /\ pc' = IF Tail(chunk_texts) = <<>> THEN "chunked"
                     ELSE "chunking"
    /\ UNCHANGED <<guardrail, files, chunk_files, dry_run, stats,
                   files_before, callerFrame>>

-----------------------------------------------------------------------------
(* apply_guardrails_to_chunks over a directory of chunk files *)

NoStats ==
    [total |-> 0, detected |-> 0, modified |-> 0, rejected |-> 0,
     unchanged |-> 0, errors |-> 0, total_chars_removed |-> 0]

RetroContents ==
    { Unreadable,
      JsonArray,
      JsonObject([id |-> "c1", text |-> JString(ShortText),
                  metadata |-> BaseMetadata]),
      JsonObject([id |-> "c2", text |-> JString(PhoneNumber),
                  metadata |-> BaseMetadata]),
      JsonObject([id |-> "c1", text |-> JString(<<"x", "y", "z">>)]),
      JsonObject([id |-> "c2", text |-> JString(<<>>),
                  metadata |-> BaseMetadata]),
      JsonObject([id |-> "c1", text |-> JNull, metadata |-> BaseMetadata]) }

RetroPaths == {"p1.json", "p2.json"}

\* The chunk directories: some of the paths, each with a content
RetroDirectories ==
    UNION {[paths -> RetroContents] : paths \in SUBSET RetroPaths}

\* The metadata keys of lines 102-108
RetroMetadata(metadata, action, detection, chars_removed, new_text) ==
    [filter_applied |-> TRUE,
     filter_action |-> action,
     patterns_detected |-> TRUE,
     filter_confidence |-> detection.confidence,
     filter_chars_removed |-> chars_removed,
     word_count |-> Len(Split(new_text)),
     char_count |-> Len(new_text)] @@ metadata

\* What one iteration of the loop does with the result of scan_and_guard:
\* the counter it adds to, and "write" (with the content), "unlink" or
\* "none" for the chunk file when the run is no dry run
AfterScan(content, text, scanned) ==
    IF ~scanned.detected
    THEN [stat |-> "unchanged", detected |-> FALSE, effect |-> "none"]
    ELSE IF scanned.action = "removed"
    THEN IF scanned.text # text /\ scanned.text # None /\ scanned.text # <<>>
         THEN [stat |-> "modified", detected |-> TRUE, effect |-> "write",
               chars_removed |-> Len(text) - Len(scanned.text),
               content |-> JsonObject(
                   ("text" :> JString(scanned.text))
                   @@ ("metadata" :> RetroMetadata(
                          Get(content.fields, "metadata", <<>>),
                          scanned.action, scanned.detection,
                          Len(text) - Len(scanned.text), scanned.text))
                   @@ content.fields)]
         ELSE IF scanned.text = None \/ scanned.text = <<>>
         THEN [stat |-> "rejected", detected |-> TRUE, effect |-> "unlink"]
         ELSE [stat |-> "unchanged", detected |-> TRUE, effect |-> "none"]
    ELSE IF scanned.action = "rejected"
    THEN [stat |-> "rejected", detected |-> TRUE, effect |-> "unlink"]
    ELSE [stat |-> "none", detected |-> TRUE, effect |-> "none"]

\* Lines 84-144: an exception of scan_and_guard is caught and counted
Scanned(content, scanned) ==
    IF "exc" \in DOMAIN scanned
    THEN [stat |-> "errors", detected |-> FALSE, effect |-> "none"]
    ELSE AfterScan(content, TextOf(content).val, scanned.ret)

\* The body of the loop, lines 67-144, for one chunk file
ApplyToChunk(g, content) ==
    IF ~IsChunk(content)
    THEN [stat |-> "errors", detected |-> FALSE, effect |-> "none"]
    ELSE IF TextOf(content).type # "string" \/ TextOf(content).val = <<>>
    THEN [stat |-> "none", detected |-> FALSE, effect |-> "none"]
    ELSE Scanned(content, scan_and_guard(g, TextOf(content).val,
                                         "retroactive"))

\* The statistics after one iteration
Counted(st, out) ==
    [k \in DOMAIN st |->
        st[k] + (IF k = "total" THEN 1
                 ELSE IF k = "detected" /\ out.detected THEN 1
                 ELSE IF k = "total_chars_removed" /\ out.stat = "modified"
                      THEN out.chars_removed
                 ELSE IF k = out.stat THEN 1
                 ELSE 0)]

\* The change of the chunk file that is always made, dry run or not
FileEffect_always(effect, dry) == effect

\* if not dry_run: the change of the chunk file that is made
FileEffect(effect, dry) == IF dry THEN "none" ELSE effect

\* The chunk directory after the change of one chunk file
Changed(dir, chunk_file, out, effect) ==
    IF effect = "write" THEN [dir EXCEPT ![chunk_file] = out.content]
    ELSE IF effect = "unlink" THEN Unlink(dir, chunk_file)
    ELSE dir

\* apply_guardrails_to_chunks up to its loop: the files are listed and the
\* filter is constructed; the function returns when there is no file
RetroStart(dir, dry) ==
    /\ pc = "idle"
    /\ guardrail.state = "config"
    /\ files' = dir
    /\ files_before' = dir
    /\ dry_run' = dry
    /\ stats' = NoStats
    /\ call' = [op |-> "apply_guardrails_to_chunks"]
    /\ IF DOMAIN dir = {}
       THEN /\ pc' = "retro_done"
            /\ chunk_files' = <<>>
            /\ UNCHANGED guardrail
       ELSE /\ chunk_files' \in Listings(dir)
            /\ guardrail' = Constructed(guardrail.guardrail_config)
            /\ pc' = IF guardrail'.state = "raised" THEN "retro_raised"
                     ELSE "retro_loop"
    /\ UNCHANGED <<result, ncalls, chunk_texts, chunks, callerFrame>>

\* One iteration of the loop of apply_guardrails_to_chunks
RetroStep ==
    /\ pc = "retro_loop"
    /\ call' = [op |-> "apply_guardrails_to_chunks",
                chunk_file |-> Head(chunk_files),
                content |-> files[Head(chunk_files)]]
    /\ result' = [ret |-> ApplyToChunk(guardrail, files[Head(chunk_files)])]
    /\ stats' = Counted(stats, result'.ret)
    /\ files' = Changed(files, Head(chunk_files), result'.ret,
                        FileEffect(result'.ret.effect, dry_run))
    /\ chunk_files' = Tail(chunk_files)
    /\ pc' = IF Tail(chunk_files) = <<>> THEN "retro_done" ELSE "retro_loop"
    /\ UNCHANGED <<guardrail, ncalls, dry_run, chunk_texts, chunks,
                   files_before, callerFrame>>

NextCallers ==
    \/ ChunkerInit
    \/ \E texts \in SeqsUpTo(ChunkerTexts, MaxChunks) : ProcessFileStart(texts)
    \/ ProcessFileStep
    \/ \E dir \in RetroDirectories, dry \in BOOLEAN : RetroStart(dir, dry)
    \/ RetroStep

SpecCallers == InitCallers /\ [][NextCallers]_vars


-----------------------------------------------------------------------------
(* Claims about the callers *)

\* An iteration of the loop of process_file has run with a filter
FilteredChunk ==
    /\ pc \in {"chunking", "chunked"}
    /\ call.op = "process_file"
    /\ "idx" \in DOMAIN call
    /\ guardrail.state = "constructed"

\* The result of scan_and_guard for the chunk text of the last iteration
ChunkScan == scan_and_guard(guardrail, call.chunk_text, "chunking").ret

\* The chunk of index idx is among the emitted chunks
Emitted(idx) ==
    \E k \in 1..Len(chunks) : chunks[k].metadata.chunk_index = idx

\* An iteration of the loop of apply_guardrails_to_chunks has scanned the
\* text of a chunk file
ScannedFile ==
    /\ pc \in {"retro_loop", "retro_done"}
    /\ "chunk_file" \in DOMAIN call
    /\ IsChunk(call.content)
    /\ TextOf(call.content).type = "string"
    /\ TextOf(call.content).val # <<>>

\* The result of scan_and_guard for the text of the last chunk file
FileScan ==
    scan_and_guard(guardrail, TextOf(call.content).val, "retroactive").ret

\* C19: process_file with a filter emits no chunk for a chunk text whose
\* filter action is 'rejected' or whose filtered text is null, empty or
\* shorter than 50 characters, so no emitted chunk has a null or empty text;
\* and apply_guardrails_to_chunks outside a dry run has deleted the chunk
\* file whose action is 'rejected' or whose removal left an empty text.
C19_NoEmptyChunkPersisted ==
    /\ FilteredChunk =>
          /\ \/ ~(\/ ChunkScan.action = "rejected"
                   \/ ChunkScan.text = None
                   \/ Len(ChunkScan.text) < MinFilteredChars)
             \/ ~Emitted(call.idx)
          /\ \A k \in 1..Len(chunks) :
                chunks[k].text # None /\ chunks[k].text # <<>>
    /\ (/\ ScannedFile
        /\ ~dry_run
        /\ \/ FileScan.action = "rejected"
           \/ FileScan.action = "removed" /\ FileScan.text = <<>>)
          => call.chunk_file \notin DOMAIN files

\* C19 witness: the removal left a chunk text of process_file empty and the
\* chunk was not emitted, while the chunk before it was
C19_Witness ==
    /\ FilteredChunk
    /\ ChunkScan.action = "removed"
    /\ ChunkScan.text = <<>>
    /\ call.idx = 1
    /\ Emitted(0)
    /\ ~Emitted(1)

\* The retroactive run outside a dry run has deleted a chunk file whose
\* text the removal left empty
RetroDeleted ==
    /\ ScannedFile
    /\ ~dry_run
    /\ FileScan.action = "removed"
    /\ FileScan.text = <<>>
    /\ call.chunk_file \notin DOMAIN files
    /\ stats.rejected = 1

\* C20: in a dry run apply_guardrails_to_chunks writes and deletes nothing:
\* the chunk files and their contents are those before the run, during and
\* after the loop.
C20_DryRunChangesNoFile ==
    (dry_run /\ pc \in {"retro_loop", "retro_done", "retro_raised"})
       => files = files_before

\* C20 witness: a dry run has finished that counted a modified and a
\* rejected chunk and left both chunk files as they were
C20_Witness ==
    /\ dry_run
    /\ pc = "retro_done"
    /\ stats.modified = 1
    /\ stats.rejected = 1
    /\ DOMAIN files = RetroPaths
    /\ files = files_before


-----------------------------------------------------------------------------
(* find_protected_sections and remove_protected_content over texts with     *)
(* paragraph breaks, sentence breaks and several matches                    *)

\* The content_filter sections of these calls
SectionConfigs ==
    { enabled @@ action @@ context_chars @@ custom_patterns :
        enabled \in {"enabled" :> TRUE, "enabled" :> FALSE},
        action \in {"action" :> "remove"},
        context_chars \in {<<>>, "context_chars" :> 0, "context_chars" :> 2},
        custom_patterns \in {"custom_patterns" :> l :
                               l \in {<<PhonePattern>>,
                                      <<AbPattern, PhonePattern>>}} }

\* The context_chars arguments of find_protected_sections
ContextChars == {0, 2, DefaultContextChars}

Xs(n) == [i \in 1..n |-> "x"]

SectionTexts ==
    { None,
      <<>>,
      <<"x", "y", "z">>,
      \* 'Contact: 555-1234 now.'
      ShortText,
      \* 'w. 555-1234 x. y z'
      <<"w", ".", " ">> \o PhoneNumber \o <<" ", "x", ".", " ", "y", " ", "z">>,
      \* ' x\n\n555-1234\n\ny ab '
      <<" ", "x", "\n", "\n">> \o PhoneNumber
         \o <<"\n", "\n", "y", " ", "a", "b", " ">>,
      \* 'a\n\nb. c 555-1234 d. e\n\nf'
      <<"a", "\n", "\n", "b", ".", " ", "c", " ">> \o PhoneNumber
         \o <<" ", "d", ".", " ", "e", "\n", "\n", "f">>,
      \* '555-1234 x 555-1234'
      PhoneNumber \o <<" ", "x", " ">> \o PhoneNumber,
      \* '555-1234555-1234'
      PhoneNumber \o PhoneNumber,
      \* 'u\n555-1234\nv\n555-1234\nw\n555-1234\nz'
      <<"u", "\n">> \o PhoneNumber \o <<"\n", "v", "\n">> \o PhoneNumber
         \o <<"\n", "w", "\n">> \o PhoneNumber \o <<"\n", "z">>,
      \* 'ab.\nab 555-1234.\nab'
      <<"a", "b", ".", "\n", "a", "b", " ">> \o PhoneNumber
         \o <<".", "\n", "a", "b">>,
      \* 'Hi! 555-1234 ok? yes.\tno'
      <<"H", "i", "!", " ">> \o PhoneNumber
         \o <<" ", "o", "k", "?", " ", "y", "e", "s", ".", "\t", "n", "o">>,
      \* 'p\n\n' + 'x'*150 + '. ' + 'x'*60 + '555-1234' + 'x'*60 + '. '
      \*    + 'x'*150 + '\n\nq'
      <<"p", "\n", "\n">> \o Xs(150) \o <<".", " ">> \o Xs(60) \o PhoneNumber
         \o Xs(60) \o <<".", " ">> \o Xs(150) \o <<"\n", "\n", "q">>,
      \* 'q. ' + 'x'*101 + '555-1234' + 'x'*101 + '. q'
      <<"q", ".", " ">> \o Xs(101) \o PhoneNumber \o Xs(101)
         \o <<".", " ", "q">> }

InitSections ==
    /\ setup = [none |-> TRUE]
    /\ seen_hashes = {}
    /\ lsh = [present |-> FALSE, index |-> {}]
    /\ call = NoCall
    /\ result = [none |-> TRUE]
    /\ ncalls = 0
    /\ passed_texts = {}
    /\ outcomes = {}
    /\ evaluated = <<>>
    /\ InitIdle
    /\ InitNoWorkers
    /\ \E guardrail_config \in SectionConfigs :
          guardrail = [state |-> "config", guardrail_config |-> guardrail_config]
    /\ dry_run = FALSE
    /\ stats = <<>>
    /\ chunk_texts = <<>>
    /\ chunks = <<>>
    /\ files_before = <<>>

\* find_protected_sections(text, context_chars)
FindSections(text, context_chars) ==
    /\ guardrail.state = "constructed"
    /\ ncalls < MaxGuardCalls
    /\ ncalls' = ncalls + 1
    /\ call' = [op |-> "find_protected_sections", text |-> text,
                context_chars |-> context_chars]
    /\ result' = [ret |-> find_protected_sections(guardrail, text,
                                                  context_chars)]
    /\ UNCHANGED <<guardrail, guardFrame>>

NextSections ==
    \/ Construct
    \/ \E text \in SectionTexts :
          \/ \E context_chars \in ContextChars :
                FindSections(text, context_chars)
          \/ RemoveProtectedContent(text)

SpecSections == InitSections /\ [][NextSections]_vars


-----------------------------------------------------------------------------
(* Claims about the sections *)

\* find_protected_sections was called on a text in which detection finds
\* matches
OnSections ==
    /\ call.op = "find_protected_sections"
    /\ guardrail.enabled
    /\ HasMatch(call.text)

\* The spans of the matches in the text of the call
MatchSpans == detect_protected_content(guardrail, call.text).positions

\* The context window of a span, clamped to the text
WindowStart(span) == Max2(0, span[1] - call.context_chars)
WindowEnd(span) == Min2(Len(call.text), span[2] + call.context_chars)

\* The 0-based positions in lo..hi-2 of text at which a paragraph break
\* (two newlines) lies wholly before hi
ParaBreaks(text, lo, hi) ==
    {p \in lo..(hi - 2) : text[p + 1] = "\n" /\ text[p + 2] = "\n"}

\* The same for a sentence break: a full stop followed by a space or a newline
SentBreaks(text, lo, hi) ==
    {p \in lo..(hi - 2) : text[p + 1] = "." /\ text[p + 2] \in {" ", "\n"}}

Highest(S) == CHOOSE p \in S : \A q \in S : p >= q
Lowest(S) == CHOOSE p \in S : \A q \in S : p <= q

\* Where the start of a window at w is moved to: past the nearest paragraph
\* break within 200 characters before w, else past the nearest sentence
\* break within 100 characters before w, else w
SnappedStart(text, w) ==
    IF ParaBreaks(text, Max2(0, w - 200), w) # {}
    THEN Highest(ParaBreaks(text, Max2(0, w - 200), w)) + 2
    ELSE IF SentBreaks(text, Max2(0, w - 100), w) # {}
    THEN Highest(SentBreaks(text, Max2(0, w - 100), w)) + 2
    ELSE w

\* Where the end of a window at w is moved to: up to the nearest paragraph
\* break within 200 characters after w, else past the full stop of the
\* nearest sentence break within 100 characters after w, else w
SnappedEnd(text, w) ==
    IF ParaBreaks(text, w, Min2(Len(text), w + 200)) # {}
    THEN Lowest(ParaBreaks(text, w, Min2(Len(text), w + 200)))
    ELSE IF SentBreaks(text, w, Min2(Len(text), w + 100)) # {}
    THEN Lowest(SentBreaks(text, w, Min2(Len(text), w + 100))) + 1
    ELSE w

SnappedToSentence ==
    /\ OnSections
    /\ call.context_chars = 2
    /\ Len(call.text) > 400
    /\ ParaBreaks(call.text, 0, Len(call.text)) # {}
    /\ result.ret = << <<155, 284>> >>

\* No break lies within reach: the section is the raw window
RawWindow ==
    /\ OnSections
    /\ call.context_chars = 2
    /\ SentBreaks(call.text, 0, Len(call.text)) # {}
    /\ Len(MatchSpans) = 1
    /\ result.ret = << <<WindowStart(MatchSpans[1]), WindowEnd(MatchSpans[1])>> >>
    /\ WindowStart(MatchSpans[1]) > 0
    /\ WindowEnd(MatchSpans[1]) < Len(call.text)


\* C22: the sections returned by find_protected_sections are sorted by
\* start, each lies within the text with start <= end, each starts strictly
\* after the end of the one before it (no two overlap or touch), and every
\* match span lies within one of them.
C22_SectionsDisjointAndCovering ==
    OnSections =>
       /\ result.ret # <<>>
       /\ \A n \in 1..Len(result.ret) :
             /\ 0 <= result.ret[n][1]
             /\ result.ret[n][1] <= result.ret[n][2]
             /\ result.ret[n][2] <= Len(call.text)
             /\ n > 1 => result.ret[n - 1][2] < result.ret[n][1]
       /\ \A i \in 1..Len(MatchSpans) :
             \E n \in 1..Len(result.ret) :
                /\ result.ret[n][1] <= MatchSpans[i][1]
                /\ MatchSpans[i][2] <= result.ret[n][2]

\* C22 witness: four matches in 'ab.\nab 555-1234.\nab' give three
\* sections, the second holding two matches
C22_Witness ==
    /\ OnSections
    /\ call.context_chars = 0
    /\ Len(MatchSpans) = 4
    /\ result.ret = << <<0, 3>>, <<4, 16>>, <<17, 19>> >>

\* Two windows that touch are merged into one section
TouchingMerged ==
    /\ OnSections
    /\ call.context_chars = 0
    /\ call.text = PhoneNumber \o PhoneNumber
    /\ result.ret = << <<0, 16>> >>


\* remove_protected_content was called on a text in which detection finds
\* matches
OnRemoval ==
    /\ call.op = "remove_protected_content"
    /\ guardrail.enabled
    /\ HasMatch(call.text)

\* C23: remove_protected_content deletes the sections from the last to the
\* first: before the cleanup the text is the original text without the
\* characters inside the sections, every character outside them kept in its
\* order; the text returned is that text with its runs of three or more
\* newlines collapsed and its ends stripped, so it has no run of three
\* newlines and no leading or trailing whitespace.
C23_RemovalKeepsOutsideInOrder ==
    OnRemoval =>
       /\ result.ret.removed
       /\ result.ret.sections_removed = Len(SectionsOfCall)
       /\ CutSections(call.text, SectionsOfCall) = OutsideSections
       /\ result.ret.text = Strip(CollapseNewlines(OutsideSections))
       /\ \A i \in 1..(Len(result.ret.text) - 2) :
             ~(/\ result.ret.text[i] = "\n"
               /\ result.ret.text[i + 1] = "\n"
               /\ result.ret.text[i + 2] = "\n")
       /\ result.ret.text # <<>> =>
             /\ ~IsSpace(result.ret.text[1])
             /\ ~IsSpace(result.ret.text[Len(result.ret.text)])

\* C23 witness: two sections are cut from ' x\n\n555-1234\n\ny ab ', which
\* leaves ' x\n\n\n\n '; the newlines are collapsed and the ends stripped
C23_Witness ==
    /\ OnRemoval
    /\ result.ret.sections_removed = 2
    /\ SectionsOfCall = << <<4, 12>>, <<14, 18>> >>
    /\ OutsideSections = <<" ", "x", "\n", "\n", "\n", "\n", " ">>
    /\ result.ret.text = <<"x">>


-----------------------------------------------------------------------------
(* Runs of filter_all: a run over a directory, a second run with a fresh    *)
(* DedupFilter over what the first run kept, and a second run over the same *)
(* directory listed in another order                                        *)

RunQuality == QualityConfig(3, 4, Thr(1, 2, "0.5"), FALSE, 0)

RunSetups ==
    { MkSetup(DedupConfig(TRUE, TRUE, 5), RunQuality, TRUE, "ok"),
      MkSetup(DedupConfig(TRUE, FALSE, 5), RunQuality, TRUE, "ok"),
      MkSetup(DedupConfig(FALSE, TRUE, 5), RunQuality, TRUE, "ok"),
      MkSetup(DedupConfig(FALSE, FALSE, 5), RunQuality, TRUE, "ok"),
      \* near_dedup configured, datasketch not importable
      MkSetup(DedupConfig(TRUE, TRUE, 5), RunQuality, FALSE, "ok") }

\* The chunk files of these runs
RunContents ==
    { JsonObject(IdField("c1") @@ ("text" :> JString(W(<<"a", "b", "c", "d">>)))
                 @@ MetadataField(TRUE)),
      JsonObject(IdField("c2") @@ ("text" :> JString(W(<<"A", "B", "C", "D">>)))
                 @@ MetadataField(TRUE)),
      JsonObject(IdField("c3") @@ ("text" :> JString(W(<<"a", "b", "c">>)))
                 @@ MetadataField(TRUE)),
      JsonObject(IdField("c4") @@ ("text" :> JString(W(<<"w", "x", "y", "z">>)))
                 @@ MetadataField(TRUE)),
      \* no metadata: process_chunk raises KeyError
      JsonObject(IdField("c1") @@ ("text" :> JString(W(<<"w", "x", "y", "z">>)))
                 @@ MetadataField(FALSE)),
      \* five words: rejected by the quality assessment
      JsonObject(IdField("c5")
                 @@ ("text" :> JString(W(<<"a", "b", "c", "d", "d">>)))
                 @@ MetadataField(TRUE)) }

RunDirectories ==
    UNION {[ps -> RunContents] : ps \in SUBSET Paths}

\* The file path of dir holds a chunk that filter_all kept and rewrote
KeptFile(dir, path) ==
    /\ IsChunk(dir[path])
    /\ "metadata" \in DOMAIN dir[path].fields
    /\ "passed_filtering" \in DOMAIN dir[path].fields["metadata"]

KeptPaths(dir) == {path \in DOMAIN dir : KeptFile(dir, path)}

\* The distinct texts of the kept chunks of dir
KeptTexts(dir) == {TextOf(dir[path]).val : path \in KeptPaths(dir)}

InitRuns ==
    /\ setup \in RunSetups
    /\ seen_hashes = {}
    /\ lsh = NewLsh
    /\ call = NoCall
    /\ result = [none |-> TRUE]
    /\ ncalls = 0
    /\ passed_texts = {}
    /\ outcomes = {}
    /\ evaluated = <<>>
    /\ files \in RunDirectories
    /\ chunk_files = <<>>
    /\ pc = "idle"
    /\ kept_count = 0
    /\ removed_count = 0
    /\ removal_reasons = <<>>
    /\ InitNoWorkers
    /\ InitNoGuardrail

\* DedupFilter(config_path) and filter_all up to its loop, over the
\* directory dir: ncalls is 0 in the first run, 1 in a run over what the
\* first run kept, 2 in a run over the directory of the first run
RunFilterAll(dir, run) ==
    /\ seen_hashes' = {}
    /\ lsh' = NewLsh
    /\ files' = dir
    /\ files_before' = dir
    /\ ncalls' = run
    /\ kept_count' = 0
    /\ removed_count' = 0
    /\ removal_reasons' = <<>>
    /\ call' = NoCall
    /\ result' = [none |-> TRUE]
    /\ IF DOMAIN dir = {}
       THEN /\ pc' = "done"
            /\ chunk_files' = <<>>
       ELSE /\ pc' = "loop"
            /\ chunk_files' \in Listings(dir)
    /\ UNCHANGED <<setup, outcomes, evaluated, workerVars, guardrail, dry_run,
                   stats, chunk_texts, chunks>>

\* The first run
RunFirst ==
    /\ pc = "idle"
    /\ passed_texts' = passed_texts
    /\ RunFilterAll(files, 0)

\* A second run, with a fresh DedupFilter, over the chunks the first run
\* kept
RunOnKept ==
    /\ pc = "done"
    /\ ncalls = 0
    /\ passed_texts' = KeptTexts(files)
    /\ RunFilterAll(files, 1)

\* A second run, with a fresh DedupFilter, over the directory of the first
\* run, in any order of its files; passed_texts holds the texts the first
\* run kept
RunReordered ==
    /\ pc \in {"done", "raised"}
    /\ ncalls = 0
    /\ passed_texts' = KeptTexts(files)
    /\ RunFilterAll(files_before, 2)

NextRuns == RunFirst \/ FilterAllStep \/ RunOnKept \/ RunReordered

SpecRuns == InitRuns /\ [][NextRuns]_vars


-----------------------------------------------------------------------------
(* Claims about the runs of the filter *)

\* The index query finds one text similar to the other: the Jaccard
\* similarity of their signatures is not below the threshold
Similar(a, b) ==
    ~FracLt(Jaccard(create_minhash(a), create_minhash(b)),
            dedup_config.minhash.threshold)

\* C24: among the chunks one DedupFilter has kept no two are duplicates:
\* with exact_dedup no two kept chunks have the same text, and with
\* near_dedup and an index to query no kept chunk is similar to another.
C24_NoTwoKeptDuplicates ==
    \A p, q \in KeptPaths(files) :
       p # q =>
          /\ dedup_config.exact_dedup =>
                TextOf(files[p]).val # TextOf(files[q]).val
          /\ (dedup_config.near_dedup /\ lsh.present) =>
                ~Similar(TextOf(files[p]).val, TextOf(files[q]).val)

\* C24 witness: with both deduplications a first run kept two chunks and
\* rejected the third as a near-duplicate
C24_Witness ==
    /\ ncalls = 0
    /\ pc = "done"
    /\ dedup_config.exact_dedup
    /\ dedup_config.near_dedup
    /\ lsh.present
    /\ Cardinality(KeptPaths(files)) = 2
    /\ "Near-duplicate" \in DOMAIN removal_reasons

\* near_dedup is configured and datasketch could not be imported: there is
\* no index, and two chunks with the same words were both kept
SimilarKeptWithoutIndex ==
    /\ dedup_config.near_dedup
    /\ ~lsh.present
    /\ \E p, q \in KeptPaths(files) :
          /\ p # q
          /\ Similar(TextOf(files[p]).val, TextOf(files[q]).val)


\* The sum of the counts of a tally
RECURSIVE TallySum(_)
TallySum(reasons) ==
    IF DOMAIN reasons = {} THEN 0
    ELSE LET reason == CHOOSE r \in DOMAIN reasons : TRUE
         IN  reasons[reason]
             + TallySum([r \in DOMAIN reasons \ {reason} |-> reasons[r]])

\* filter_all has ended: it returned, or an exception left it
FilterAllEnded == pc \in {"done", "raised"}

\* C27: when filter_all has ended it has handled every chunk file it found
\* once: the file is still there, rewritten with the enriched metadata, or
\* it was deleted; kept_count + removed_count is the number of files found
\* and the tallies per reason sum to removed_count.
C27_EveryFileHandledOnce ==
    FilterAllEnded =>
       /\ DOMAIN files = KeptPaths(files)
       /\ kept_count = Cardinality(KeptPaths(files))
       /\ removed_count = Cardinality(DOMAIN files_before \ DOMAIN files)
       /\ kept_count + removed_count = Cardinality(DOMAIN files_before)
       /\ TallySum(removal_reasons) = removed_count

\* The statement of C27 for the runs that return
HandledOnceWhenReturned == pc = "done" => C27_EveryFileHandledOnce

\* A run returned that kept one chunk and removed two for different reasons
ReturnedWithTallies ==
    /\ pc = "done"
    /\ kept_count = 1
    /\ removed_count = 2
    /\ Cardinality(DOMAIN removal_reasons) = 2


\* C28: a second run of filter_all, with a fresh DedupFilter and the same
\* configuration, over the chunks a first run kept rejects none of them in
\* any order of the files: no file is deleted, no exception leaves the run,
\* and when it has returned every chunk was kept again.
C28_SecondRunRejectsNone ==
    ncalls = 1 =>
       /\ removed_count = 0
       /\ removal_reasons = <<>>
       /\ pc # "raised"
       /\ DOMAIN files = DOMAIN files_before
       /\ pc = "done" =>
             /\ kept_count = Cardinality(DOMAIN files_before)
             /\ KeptTexts(files) = passed_texts

\* C28 witness: the first run rejected a chunk and kept two, and the second
\* run over the two has returned
C28_Witness ==
    /\ ncalls = 1
    /\ pc = "done"
    /\ kept_count = 2
    /\ Cardinality(passed_texts) = 2
    /\ \E o \in outcomes : o[2] = "rejected"


\* C29: with near_dedup disabled the set of the distinct texts of the kept
\* chunks does not depend on the order in which the chunk files are listed:
\* a run over the same directory in any other order ends with the kept
\* texts of the first run.
C29_KeptTextsSameInEveryOrder ==
    (ncalls = 2 /\ FilterAllEnded /\ ~dedup_config.near_dedup)
       => KeptTexts(files) = passed_texts

\* The statement of C29 for the directories over which no run raises
SameKeptTextsWhenNoneRaises ==
    (\A o \in outcomes : o[2] # "raised") => C29_KeptTextsSameInEveryOrder

\* Two runs over a directory with two chunks of one text, listed in
\* different orders, have returned with that text kept once
SameTextKeptOnce ==
    /\ ncalls = 2
    /\ pc = "done"
    /\ ~dedup_config.near_dedup
    /\ dedup_config.exact_dedup
    /\ "Exact duplicate" \in DOMAIN removal_reasons
    /\ Cardinality(passed_texts) = 1
    /\ KeptTexts(files) = passed_texts


-----------------------------------------------------------------------------
(* TextChunker.chunk_by_fixed_size (src/scripts/chunk_text.py)              *)

\* Chunks recorded of one call; the loop goes on past it, the chunks it
\* appends beyond are not recorded.
MaxRecordedChunks == 5

FixedTexts ==
    { <<>>,
      <<"a">>,
      W(<<"a", "b", "c">>),
      <<" ">> \o W(<<"a", "b", "c", "d">>) \o <<"\n">> }

\* max_size >= 1 and 0 <= overlap < max_size
FixedSizes ==
    {s \in [max_size : 1..3, overlap : 0..2] : s.overlap < s.max_size}

InitFixed ==
    /\ setup = [none |-> TRUE]
    /\ seen_hashes = {}
    /\ lsh = [present |-> FALSE, index |-> {}]
    /\ call = NoCall
    /\ result = [none |-> TRUE]
    /\ ncalls = 0
    /\ passed_texts = {}
    /\ outcomes = {}
    /\ evaluated = <<>>
    /\ InitIdle
    /\ InitNoWorkers
    /\ InitNoGuardrail

fixedFrame == <<setup, seen_hashes, lsh, passed_texts, outcomes, evaluated,
                files, chunk_files, kept_count, removed_count,
                removal_reasons, workerVars, guardrail, dry_run, stats,
                files_before>>

\* chunk_by_fixed_size up to its loop: words = text.split(), chunks = [],
\* i = 0; chunk_texts holds words, ncalls holds i
FixedStart(text, max_size, overlap) ==
    /\ pc = "idle"
    /\ call' = [op |-> "chunk_by_fixed_size", text |-> text,
                max_size |-> max_size, overlap |-> overlap]
    /\ chunk_texts' = Split(text)
    /\ chunks' = <<>>
    /\ ncalls' = 0
    /\ pc' = "fixed_test"
    /\ UNCHANGED <<result, fixedFrame>>

\* while i < len(words); after the loop the chunks are returned
FixedTest ==
    /\ pc = "fixed_test"
    /\ IF ncalls < Len(chunk_texts)
       THEN /\ pc' = "fixed_body"
            /\ UNCHANGED result
       ELSE /\ pc' = "fixed_done"
            /\ result' = [ret |-> chunks]
    /\ UNCHANGED <<call, chunk_texts, chunks, ncalls, fixedFrame>>

\* words[i:end] of Python: a negative index counts from the end of the list
WordIndex(ws, i) ==
    IF i < 0 THEN Max2(Len(ws) + i, 0) ELSE Min2(i, Len(ws))

WordSlice(ws, i, end) ==
    IF WordIndex(ws, i) < WordIndex(ws, end)
    THEN SubSeq(ws, WordIndex(ws, i) + 1, WordIndex(ws, end))
    ELSE <<>>

\* i after the body of the loop
NextIndex(i, end, overlap) == IF overlap > 0 THEN end - overlap ELSE end

\* The body of the loop
FixedBody ==
    /\ pc = "fixed_body"
    /\ chunks' = IF Len(chunks) < MaxRecordedChunks
                 THEN Append(chunks,
                             Join(WordSlice(chunk_texts, ncalls,
                                            Min2(ncalls + call.max_size,
                                                 Len(chunk_texts)))))
                 ELSE chunks
    /\ ncalls' = NextIndex(ncalls,
                           Min2(ncalls + call.max_size, Len(chunk_texts)),
                           call.overlap)
    /\ pc' = "fixed_test"
    /\ UNCHANGED <<call, result, chunk_texts, fixedFrame>>

NextFixed ==
    \/ \E text \in FixedTexts, s \in FixedSizes :
          FixedStart(text, s.max_size, s.overlap)
    \/ FixedTest
    \/ FixedBody

\* The interpreter goes on running the call
SpecFixed == InitFixed /\ [][NextFixed]_vars /\ WF_vars(NextFixed)

\* C25: chunk_by_fixed_size terminates for every text and every max_size >= 1
\* and 0 <= overlap < max_size: every call that has started returns.
C25_FixedSizeTerminates ==
    (pc = "fixed_test") ~> (pc = "fixed_done")

\* The statement of C25 for the calls without overlap
TerminatesWithoutOverlap ==
    (pc = "fixed_test" /\ call.overlap = 0) ~> (pc = "fixed_done")

\* The loop has appended 'a b', 'b c', 'c', 'c', 'c' for 'a b c' with
\* max_size 2 and overlap 1, and i is where it was two chunks before
LoopIndexStuck ==
    /\ pc = "fixed_test"
    /\ call.max_size = 2
    /\ call.overlap = 1
    /\ chunks = << W(<<"a", "b">>), W(<<"b", "c">>), <<"c">>, <<"c">>, <<"c">> >>
    /\ ncalls = 2
    /\ ncalls < Len(chunk_texts)


\* C26: after apply_guardrails_to_chunks finishes every chunk file it
\* iterated over is counted in exactly one outcome:
\* total = modified + rejected + unchanged + errors.
C26_EveryChunkInOneOutcome ==
    pc = "retro_done" =>
        stats.total = stats.modified + stats.rejected + stats.unchanged
                      + stats.errors

\* No chunk file is counted in two outcomes
CountedAtMostOnce ==
    pc \in {"retro_loop", "retro_done"} =>
        stats.modified + stats.rejected + stats.unchanged + stats.errors
            <= stats.total

\* A run has finished in which a detection was counted and no outcome was
DetectedWithoutOutcome ==
    /\ pc = "retro_done"
    /\ stats.total = 1
    /\ stats.detected = 1
    /\ stats.modified + stats.rejected + stats.unchanged + stats.errors = 0


-----------------------------------------------------------------------------
(* main_pipeline and its tasks (src/workflows/main_pipeline.py)             *)

\* Files a stage can count in its output directory
MaxStageFiles == 2

\* What the work of a stage does: it raises, or it leaves n files
StageWork == {[raised |-> TRUE]} \cup
             {[raised |-> FALSE, files |-> n] : n \in 0..MaxStageFiles}

InitPipeline ==
    /\ setup = [none |-> TRUE]
    /\ seen_hashes = {}
    /\ lsh = [present |-> FALSE, index |-> {}]
    /\ call = NoCall
    /\ result = [none |-> TRUE]
    /\ ncalls = 0
    /\ passed_texts = {}
    /\ outcomes = {}
    /\ evaluated = <<>>
    /\ InitIdle
    /\ InitNoWorkers
    /\ InitNoGuardrail

pipelineFrame == <<setup, seen_hashes, lsh, ncalls, passed_texts, outcomes,
                   files, chunk_files, kept_count, removed_count,
                   removal_reasons, worker_pc, worker_text, overlapped,
                   guardVars>>

\* main_pipeline up to the first stage: the configuration file is read.
\* returns holds the results of the tasks called so far, evaluated the
\* stages whose work was started, in order.
main_pipeline(readable) ==
    /\ pc = "idle"
    /\ call' = [op |-> "main_pipeline", readable |-> readable]
    /\ returns' = <<>>
    /\ evaluated' = <<>>
    /\ IF readable
       THEN /\ pc' = "extraction"
            /\ UNCHANGED result
       ELSE /\ pc' = "pipeline_raised"
            /\ result' = [exc |-> "OSError"]
    /\ UNCHANGED pipelineFrame

\* The body of a task after its test of the upstream result: try the work,
\* return 'success' with the count, or 'failed' with the error
Worked(work, success) ==
    IF work.raised THEN [status |-> "failed", error |-> "error"]
    ELSE success

Task_unless_failed(upstream, work, success) ==
    IF upstream.status = "failed" THEN [status |-> "skipped"]
    ELSE Worked(work, success)

\* A task that takes the result of another: skipped unless that result
\* has status 'success'
Task(upstream, work, success) ==
    IF upstream.status # "success" THEN [status |-> "skipped"]
    ELSE Worked(work, success)

\* The stages whose work has started, after a task that takes upstream
Started(upstream, stage) ==
    IF upstream.status # "success" THEN evaluated
    ELSE Append(evaluated, stage)

extract_text_task(work) ==
    /\ pc = "extraction"
    /\ returns' = returns @@
         ("extraction" :> Worked(work, [status |-> "success",
                                        extracted_files |-> work.files]))
    /\ evaluated' = Append(evaluated, "extraction")
    /\ pc' = "cleaning"
    /\ UNCHANGED <<call, result, pipelineFrame>>

clean_text_task(work) ==
    /\ pc = "cleaning"
    /\ returns' = returns @@
         ("cleaning" :> Task(returns["extraction"], work,
                             [status |-> "success",
                              cleaned_files |-> work.files]))
    /\ evaluated' = Started(returns["extraction"], "cleaning")
    /\ pc' = "chunking"
    /\ UNCHANGED <<call, result, pipelineFrame>>

chunk_text_task(work) ==
    /\ pc = "chunking"
    /\ returns' = returns @@
         ("chunking" :> Task(returns["cleaning"], work,
                             [status |-> "success",
                              total_chunks |-> work.files]))
    /\ evaluated' = Started(returns["cleaning"], "chunking")
    /\ pc' = "filtering"
    /\ UNCHANGED <<call, result, pipelineFrame>>

\* The result of deduplicate_filter_task when filter_all returned
Filtered(chunking_result, remaining) ==
    [status |-> "success",
     filtered_chunks |-> remaining,
     removed_chunks |-> chunking_result.total_chunks - remaining]

deduplicate_filter_task(work) ==
    /\ pc = "filtering"
    /\ returns' = returns @@
         ("filtering" :>
             IF returns["chunking"].status # "success" \/ work.raised
             THEN Task(returns["chunking"], work, [status |-> "success"])
             ELSE Task(returns["chunking"], work,
                       Filtered(returns["chunking"], work.files)))
    /\ evaluated' = Started(returns["chunking"], "filtering")
    /\ pc' = "sharding"
    /\ UNCHANGED <<call, result, pipelineFrame>>

create_shards_task(work) ==
    /\ pc = "sharding"
    /\ returns' = returns @@
         ("sharding" :> Task(returns["filtering"], work,
                             [status |-> "success",
                              total_shards |-> work.files]))
    /\ evaluated' = Started(returns["filtering"], "sharding")
    /\ pc' = "annotation_export"
    /\ UNCHANGED <<call, result, pipelineFrame>>

export_annotation_task(work) ==
    /\ pc = "annotation_export"
    /\ returns' = returns @@
         ("annotation_export" :> Task(returns["filtering"], work,
                                      [status |-> "success",
                                       exported_niches |-> work.files]))
    /\ evaluated' = Started(returns["filtering"], "annotation_export")
    /\ pc' = "compile"
    /\ UNCHANGED <<call, result, pipelineFrame>>

PipelineStatus(results) ==
    IF \A s \in DOMAIN results : results[s].status \in {"success", "skipped"}
    THEN "success"
    ELSE "failed"

\* main_pipeline compiles final_result and returns it
CompileResults ==
    /\ pc = "compile"
    /\ result' = [ret |-> returns @@
                          ("pipeline_status" :> PipelineStatus(returns))]
    /\ pc' = "pipeline_done"
    /\ UNCHANGED <<call, returns, evaluated, pipelineFrame>>

NextPipeline ==
    \/ \E readable \in BOOLEAN : main_pipeline(readable)
    \/ \E work \in StageWork :
          \/ extract_text_task(work)
          \/ clean_text_task(work)
          \/ chunk_text_task(work)
          \/ deduplicate_filter_task(work)
          \/ create_shards_task(work)
          \/ export_annotation_task(work)
    \/ CompileResults

SpecPipeline == InitPipeline /\ [][NextPipeline]_vars

\* The result a task is handed in main_pipeline: sharding and the annotation
\* export both take the filtering result
DependsOn ==
    [cleaning |-> "extraction", chunking |-> "cleaning",
     filtering |-> "chunking", sharding |-> "filtering",
     annotation_export |-> "filtering"]

\* stage s is downstream of stage t
RECURSIVE Downstream(_, _)
Downstream(s, t) ==
    /\ s \in DOMAIN DependsOn
    /\ \/ DependsOn[s] = t
       \/ Downstream(DependsOn[s], t)

Ran(s) == \E i \in 1..Len(evaluated) : evaluated[i] = s

\* C30: in main_pipeline a stage does its work only if the stage it depends
\* on returned 'success'; once a stage has returned 'failed' or 'skipped'
\* every stage downstream of it returns 'skipped' without running; and
\* pipeline_status is 'success' only if no stage returned 'failed'.
C30_StagesFollowDependencies ==
    /\ pc \notin {"idle", "pipeline_raised"} =>
        /\ \A s \in DOMAIN DependsOn :
              Ran(s) => /\ DependsOn[s] \in DOMAIN returns
                        /\ returns[DependsOn[s]].status = "success"
        /\ \A s \in DOMAIN returns, t \in DOMAIN returns :
              (Downstream(s, t) /\ returns[t].status \in {"failed", "skipped"})
                  => (returns[s].status = "skipped" /\ ~Ran(s))
    /\ pc = "pipeline_done" =>
        (result.ret["pipeline_status"] = "success" =>
            \A s \in DOMAIN returns : returns[s].status # "failed")

\* C30 witness: cleaning failed after a successful extraction; the four
\* stages after it were skipped and the pipeline is 'failed'
C30_Witness ==
    /\ pc = "pipeline_done"
    /\ evaluated = <<"extraction", "cleaning">>
    /\ returns["extraction"].status = "success"
    /\ returns["cleaning"].status = "failed"
    /\ \A s \in {"chunking", "filtering", "sharding", "annotation_export"} :
          returns[s].status = "skipped"
    /\ result.ret["pipeline_status"] = "failed"

\* Sharding failed and the annotation export, which takes the filtering
\* result, still ran
ExportAfterFailedSharding ==
    /\ pc = "pipeline_done"
    /\ returns["sharding"].status = "failed"
    /\ returns["annotation_export"].status = "success"
    /\ result.ret["pipeline_status"] = "failed"

\* All six stages succeeded
AllStagesSucceeded ==
    /\ pc = "pipeline_done"
    /\ Len(evaluated) = 6
    /\ result.ret["pipeline_status"] = "success"
    /\ returns["filtering"].removed_chunks = 1

=============================================================================
